---------------------------- MODULE Spec2Model ----------------------------
(***************************************************************************)
(* Model of the keypoint re-localization and measurement engine of         *)
(* src/measurment2.py (class LiveKeypointDistanceMeasurer).                *)
(*                                                                         *)
(* Pixel coordinates are integers, a point is a pair <<x, y>>, and the     *)
(* sentinel of the code, [-1, -1], is the point <<-1, -1>>.  Centimetre    *)
(* values are integers.  Python dictionaries are functions whose DOMAIN is *)
(* the set of keys.                                                        *)
(***************************************************************************)
EXTENDS Integers, Sequences, FiniteSets, TLC

VARIABLES
    current_side,             \* 'front' or 'back'
    keypoints,                \* front annotation, ordered list of points
    back_keypoints,           \* back annotation
    placement_box,            \* front placement guide box, <<>> when absent
    reference_image,          \* size of the front reference image, NoImage when absent
    back_reference_image,     \* size of the back reference image, NoImage when absent
    live_size,                \* size of the frames the camera delivers
    is_calibrated,
    pixels_per_cm,
    target_distances,         \* front: pair number -> cm
    back_target_distances,    \* back: pair number -> cm
    qc_results,               \* pair number -> "PASS" | "FAIL"
    annotation_file,          \* content of the front annotation JSON file
    back_annotation_file,     \* content of the back annotation JSON file
    qc_call,                  \* the last check_qc call: arguments, state before, result
    last_valid_keypoints,     \* remembered positions of the stabilizer
    stabilization_frames,     \* consecutive stable frames
    keypoint_stabilized,
    transferred_keypoints,    \* what the live loop draws and measures
    is_keypoints_transferred,
    last_detected_scale,      \* smoothed scale estimate, in hundredths
    stab_call,                \* the last keypoint transfer: observations, state before
    current_measurements,     \* the records of the last measured iteration of the live loop
    loop,                     \* transfer_keypoints_to_live: "running", "returned" or "raised"
    paused,
    pressed_key,              \* the key cv2.waitKey will return, "none" when no key is down
    has_last_frame,           \* hasattr(self, '_last_frame_gray')
    stop_missed,              \* an iteration began and finished with the stop key waiting
    qc_calls,                 \* calls of check_qc in the last iteration
    last_iteration,           \* the last iteration: "none", "skipped", "live", "paused", "switched"
    entry_point,              \* "run", "test" (test_direct_measurement.py) or "worker"
    pc,                       \* position of the entry point
    hCamera,                  \* Camera.hCamera, 0 when the camera is not open
    pFrameBuffer,             \* Camera.pFrameBuffer, 0 when no buffer is allocated
    uninit_calls,             \* calls of CameraUnInit
    free_calls,               \* calls of CameraAlignFree
    reference_image_file,     \* the front reference image on disk, NoImage when absent
    back_reference_image_file,
    calibration_file,         \* content of the calibration JSON file
    annot_call,               \* the last save of an annotation and whether it was loaded since
    error_counts,             \* self._error_counts: error key -> occurrences
    error_log,                \* message -> times transfer_keypoints_robust printed it
    error_seen,               \* message -> times it was raised
    measurement_process,      \* api_server: the global handle of the worker process
    measurement_status,       \* api_server: the global status dictionary
    processes,                \* api_server: each worker process, unborn, alive or ended
    threads,                  \* api_server: each waiter thread, its position and process
    start_pc,                 \* api_server: the position of the start request in progress
    stopped_worker            \* api_server: the worker the last stop killed, until the next start

qcVars == <<target_distances, back_target_distances, qc_results,
            annotation_file, back_annotation_file, qc_call>>
trackVars == <<last_valid_keypoints, stabilization_frames, keypoint_stabilized,
               transferred_keypoints, is_keypoints_transferred,
               last_detected_scale, stab_call>>
liveVars == <<current_measurements>>
loopVars == <<loop, paused, pressed_key, has_last_frame, stop_missed,
              last_iteration, qc_calls>>
cameraVars == <<hCamera, pFrameBuffer, uninit_calls, free_calls>>
fileVars == <<reference_image_file, back_reference_image_file, calibration_file,
              annot_call>>
errVars == <<error_counts, error_log, error_seen>>
apiVars == <<measurement_process, measurement_status, processes, threads,
             start_pc, stopped_worker>>
sessionVars == <<entry_point, pc, cameraVars, errVars, fileVars, apiVars>>
refVars == <<keypoints, back_keypoints, placement_box, reference_image,
             back_reference_image, live_size, is_calibrated, pixels_per_cm>>

-----------------------------------------------------------------------------
(* Bounds of the model *)

\* the largest pair number check_qc is called with in the QC specification
MaxPairs == 2

\* the longest front annotation
MaxKeypoints == 3

\* the length of the back annotation, when there is one
BackKeypoints == 2

\* stabilization_frames is unbounded in the code; frames are fed while it is below
MaxStableFrames == 3

(* Program constants *)

\* self.stabilization_threshold = 17.0
stabilization_threshold == 17

\* if magnitude > 5:  # Significant movement
significant_movement == 5

\* return consistency > 0.7, in thousandths
consistency_threshold == 700

\* if self.stabilization_frames >= 2
stable_frames_needed == 2

\* self.qc_tolerance_cm = 100.0
qc_tolerance_cm == 100

\* self.last_detected_scale = 1.0, in hundredths
initial_scale == 100

\* self.min_matches = 15
min_matches == 15

\* if len(matches) >= 20 and self.transfer_method in ['homography', 'auto']
homography_min_matches == 20

\* if len(matches) < 4:  # Need at least 4 points for MLS
mls_min_matches == 4

\* if 0.1 < abs(det) < 10.0, in thousandths
homography_det_min == 100

homography_det_max == 10000

\* weight = 1e6 at distance < 1e-6
mls_zero_weight == 1000000

\* estimate_scale_change: if len(matches) < 4
scale_min_matches == 4

\* self.corner_keypoints_count = 12
corner_keypoints_count == 12

\* if distance < 25:  # Points are close enough
fusion_agreement == 25

\* feature_weight = 0.7 if len(matches) >= self.min_matches else 0.4, in tenths
feature_weight_strong == 7

feature_weight_weak == 4

\* if ref_dist > 10:  # Only consider significant distances
scale_min_distance == 10

\* self.scale_smoothing_factor = 0.3, in hundredths
scale_smoothing_factor == 30

\* search_radius = 80  # pixels to search around annotation position
direct_search_radius == 80

\* template_size = 60   # size of template patch
direct_template_size == 60

\* if ref_x2 - ref_x1 < 20 or ref_y2 - ref_y1 < 20
direct_min_template == 20

\* if max_val > 0.5, in hundredths
direct_match_threshold == 50

\* if dx < 60 and dy < 60
direct_max_move == 60

-----------------------------------------------------------------------------
(* Values of the model *)

Sides == {"front", "back"}
NoCall == [kind |-> "none"]
NoFile == [kind |-> "absent"]
EmptyDict == [k \in {} |-> 0]

\* centimetre values a measurement or an annotated target can take: around a
\* target of 200 they sit on, just inside and just outside the tolerance
MeasuredCm == {100, 200, 301}

Abs(v) == IF v < 0 THEN -v ELSE v

Max(a, b) == IF a >= b THEN a ELSE b

Min(a, b) == IF a <= b THEN a ELSE b

\* an image that is not loaded (None)
NoImage == <<>>

\* width and height of the reference images
ReferenceSize == <<400, 300>>

\* width and height of the frames of a camera of another resolution
ScaledLiveSize == <<440, 330>>

\* no error of the feature path was raised yet
NoErrors ==
    /\ error_counts = EmptyDict
    /\ error_log = EmptyDict
    /\ error_seen = EmptyDict

\* start requests of the API specification; request n starts thread n, whose
\* Popen starts worker process n
MaxStarts == 2

Workers == 1..MaxStarts

\* measurement_process = None
NoProcess == 0

\* the API server after import: no worker, no thread, status idle
ApiIdle ==
    /\ measurement_process = NoProcess
    /\ measurement_status = [running |-> FALSE, status |-> "idle", error |-> "None"]
    /\ processes = [n \in Workers |-> "unborn"]
    /\ threads = [n \in Workers |-> [pc |-> "unborn", waits_for |-> NoProcess]]
    /\ start_pc = "idle"
    /\ stopped_worker = NoProcess

\* the calibration_data dictionary save_calibration dumps
CalibrationData(scale, calibrated) ==
    [kind |-> "calibration", pixels_per_cm |-> scale, is_calibrated |-> calibrated]

\* the live loop as it runs on live frames: not paused, no key down, the
\* camera open, the files on disk those the session loaded
InLiveLoop ==
    /\ loop = "running"
    /\ paused = FALSE
    /\ pressed_key = "none"
    /\ has_last_frame = FALSE
    /\ stop_missed = FALSE
    /\ last_iteration = "none"
    /\ qc_calls = 0
    /\ entry_point = "run"
    /\ pc = "loop"
    /\ hCamera = 1
    /\ pFrameBuffer = 1
    /\ uninit_calls = 0
    /\ free_calls = 0
    /\ reference_image_file = reference_image
    /\ back_reference_image_file = back_reference_image
    /\ calibration_file = CalibrationData(pixels_per_cm, is_calibrated)
    /\ annot_call = NoCall
    /\ NoErrors
    /\ ApiIdle

DictPut(d, k, v) == [j \in DOMAIN d \cup {k} |-> IF j = k THEN v ELSE d[j]]

-----------------------------------------------------------------------------
(* The annotation record, as json.dump / json.load carry it *)

\* JSON object keys are strings: json.dump writes the integer key k as str(k)
KeyNames == <<"1", "2", "3", "4", "5", "6">>
JsonKey(k) == KeyNames[k]
\* int(k) of load_annotation
IntKey(s) == CHOOSE k \in 1..Len(KeyNames) : KeyNames[k] = s

JsonTargets(d) ==
    [s \in {JsonKey(k) : k \in DOMAIN d} |-> d[IntKey(s)]]

\* {int(k): float(v) for k, v in ...items()}
LoadedTargets(j) ==
    [k \in {IntKey(s) : s \in DOMAIN j} |-> j[JsonKey(k)]]

\* the annotation_data dictionary save_annotation dumps
FrontAnnotationData(kps, targets, box) ==
    [kind |-> "annotation", keypoints |-> kps,
     target_distances |-> JsonTargets(targets),
     placement_box |-> box]

\* the annotation_data dictionary save_back_annotation dumps (no placement box)
BackAnnotationData(kps, targets) ==
    [kind |-> "annotation", keypoints |-> kps,
     target_distances |-> JsonTargets(targets)]

-----------------------------------------------------------------------------
(* check_qc *)

CurrentTargets == IF current_side = "front" THEN target_distances
                  ELSE back_target_distances

QcWithinBroken(measured, target, tolerance) == Abs(measured - target) < tolerance

\* abs(measured_distance - target_distance) <= tolerance
QcWithin(measured, target, tolerance) == Abs(measured - target) <= tolerance

\* check_qc(pair_num, measured_distance) from the targets and results it finds:
\* what it leaves behind and what it returns.  io_ok is whether the annotation
\* file can be written: save_annotation and save_back_annotation catch every
\* error and check_qc ignores their result.
CheckQcFromAlwaysStore(front, back, qc, pair_num, measured_distance, io_ok) ==
    LET current_target_distances == IF current_side = "front" THEN front ELSE back
        updated == DictPut(current_target_distances, pair_num, measured_distance)
        is_new == pair_num \notin DOMAIN current_target_distances
        passed == is_new \/ QcWithin(measured_distance,
                                     current_target_distances[pair_num],
                                     qc_tolerance_cm)
    IN [front  |-> IF current_side = "front" THEN updated ELSE front,
        back   |-> IF current_side = "front" THEN back ELSE updated,
        saved  |-> io_ok,
        qc     |-> IF is_new THEN qc
                   ELSE DictPut(qc, pair_num, IF passed THEN "PASS" ELSE "FAIL"),
        ret    |-> passed]

CheckQcFrom(front, back, qc, pair_num, measured_distance, io_ok) ==
    LET current_target_distances == IF current_side = "front" THEN front ELSE back
    IN IF pair_num \notin DOMAIN current_target_distances
       THEN LET updated == DictPut(current_target_distances, pair_num,
                                   measured_distance)
            IN [front  |-> IF current_side = "front" THEN updated ELSE front,
                back   |-> IF current_side = "front" THEN back ELSE updated,
                saved  |-> io_ok,
                qc     |-> qc,
                ret    |-> TRUE]
       ELSE LET passed == QcWithin(measured_distance,
                                   current_target_distances[pair_num],
                                   qc_tolerance_cm)
            IN [front  |-> front,
                back   |-> back,
                saved  |-> FALSE,
                qc     |-> DictPut(qc, pair_num, IF passed THEN "PASS" ELSE "FAIL"),
                ret    |-> passed]

CheckQcEffectFrontOnly(pair_num, measured_distance, io_ok) ==
    IF pair_num \notin DOMAIN CurrentTargets
    THEN [front  |-> DictPut(target_distances, pair_num, measured_distance),
          back   |-> back_target_distances,
          saved  |-> io_ok,
          qc     |-> qc_results,
          ret    |-> TRUE]
    ELSE LET passed == QcWithin(measured_distance, CurrentTargets[pair_num],
                                qc_tolerance_cm)
         IN [front  |-> target_distances,
             back   |-> back_target_distances,
             saved  |-> FALSE,
             qc     |-> DictPut(qc_results, pair_num, IF passed THEN "PASS" ELSE "FAIL"),
             ret    |-> passed]

\* check_qc on the state of the session
CheckQcEffect(pair_num, measured_distance, io_ok) ==
    CheckQcFrom(target_distances, back_target_distances, qc_results,
                pair_num, measured_distance, io_ok)

\* the assignments of one check_qc call to the QC variables other than qc_call
ApplyCheckQc(e) ==
    /\ target_distances' = e.front
    /\ back_target_distances' = e.back
    /\ qc_results' = e.qc
    /\ annotation_file' =
          IF e.saved /\ current_side = "front"
          THEN FrontAnnotationData(keypoints, e.front, placement_box)
          ELSE annotation_file
    /\ back_annotation_file' =
          IF e.saved /\ current_side = "back"
          THEN BackAnnotationData(back_keypoints, e.back)
          ELSE back_annotation_file

CheckQC(pair_num, measured_distance, io_ok) ==
    LET e == CheckQcEffect(pair_num, measured_distance, io_ok) IN
    /\ ApplyCheckQc(e)
    /\ qc_call' = [kind |-> "check_qc", side |-> current_side, pair_num |-> pair_num,
                   measured |-> measured_distance, io_ok |-> io_ok,
                   before |-> CurrentTargets, ret |-> e.ret]
    /\ UNCHANGED <<current_side, refVars, trackVars, liveVars, loopVars, sessionVars>>

-----------------------------------------------------------------------------
(* Annotations the sessions start from *)

Point(x, y) == <<x, y>>

\* an annotation of n keypoints: pairs lie 200 px apart on one row, rows 100 px apart
AnnotationOf(n) ==
    [i \in 1..n |-> Point(100 + 200 * ((i - 1) % 2), 100 + 100 * ((i - 1) \div 2))]

\* every dictionary of targets over the pairs 1..n
TargetDicts(n) ==
    UNION {[ks -> MeasuredCm] : ks \in SUBSET (1..n)}

-----------------------------------------------------------------------------
(* The QC specification: check_qc called on a calibrated session whose two *)
(* sides are annotated, from every state of the targets.                   *)

QcInit ==
    /\ current_side \in Sides
    /\ keypoints = AnnotationOf(2 * MaxPairs)
    /\ back_keypoints = AnnotationOf(2 * MaxPairs)
    /\ placement_box = <<>>
    /\ reference_image = ReferenceSize
    /\ back_reference_image = ReferenceSize
    /\ live_size = ReferenceSize
    /\ is_calibrated = TRUE
    /\ pixels_per_cm = 1
    /\ target_distances \in TargetDicts(MaxPairs)
    /\ back_target_distances \in TargetDicts(MaxPairs)
    /\ qc_results = EmptyDict
    /\ annotation_file = FrontAnnotationData(keypoints, target_distances, placement_box)
    /\ back_annotation_file = BackAnnotationData(back_keypoints, back_target_distances)
    /\ qc_call = NoCall
    /\ last_valid_keypoints = <<>>
    /\ stabilization_frames = 0
    /\ keypoint_stabilized = FALSE
    /\ transferred_keypoints = <<>>
    /\ is_keypoints_transferred = FALSE
    /\ last_detected_scale = initial_scale
    /\ stab_call = NoCall
    /\ current_measurements = <<>>
    /\ InLiveLoop

QcNext ==
    \E pair_num \in 1..MaxPairs, measured \in MeasuredCm, io_ok \in BOOLEAN :
        CheckQC(pair_num, measured, io_ok)

vars == <<current_side, refVars, qcVars, trackVars, liveVars, loopVars,
          sessionVars>>

SpecQC == QcInit /\ [][QcNext]_vars

-----------------------------------------------------------------------------
(* Geometry *)

Sentinel == <<-1, -1>>

\* new_point[0] == -1 or new_point[1] == -1
IsInvalid(p) == p[1] = -1 \/ p[2] = -1

Dist2(p, q) == (p[1] - q[1]) * (p[1] - q[1]) + (p[2] - q[2]) * (p[2] - q[2])

RECURSIVE SqrtSearch(_, _, _)
SqrtSearch(v, lo, hi) ==
    IF lo >= hi THEN lo
    ELSE LET mid == (lo + hi + 1) \div 2
         IN IF mid * mid <= v THEN SqrtSearch(v, mid, hi)
            ELSE SqrtSearch(v, lo, mid - 1)

\* floor of the square root
ISqrt(v) == SqrtSearch(v, 0, 46340)

\* math.sqrt in hundredths; above 200000 the last digit is dropped, which keeps
\* the product within 32 bits
Sqrt100(v) == IF v <= 200000 THEN ISqrt(v * 10000) ELSE ISqrt(v * 100) * 10

RECURSIVE SumOver(_, _)
SumOver(S, f) ==
    IF S = {} THEN 0
    ELSE LET i == CHOOSE j \in S : TRUE IN f[i] + SumOver(S \ {i}, f)

-----------------------------------------------------------------------------
(* check_coordinated_movement and stabilize_keypoints *)

\* the keypoints other than changed_index that moved significantly:
\* new_pt[0] != -1 and last_pt[0] != -1 and i != changed_index, magnitude > 5
MovedIndices(new_points, last, changed_index) ==
    {i \in 1..Len(new_points) :
        /\ new_points[i][1] # -1
        /\ last[i][1] # -1
        /\ i # changed_index
        /\ Dist2(new_points[i], last[i])
             > significant_movement * significant_movement}

\* cosine of the angle between d and the mean movement, in thousandths; the mean
\* is sum / k and has the direction of the sum.  Nothing is added to
\* consistency when the mean movement is zero (mag2 > 0 fails).
Cosine1000(d, sum) ==
    LET dot == d[1] * sum[1] + d[2] * sum[2]
        mag1 == Sqrt100(d[1] * d[1] + d[2] * d[2])
        mag2 == Sqrt100(sum[1] * sum[1] + sum[2] * sum[2])
        \* (dot * 100000) \div mag1, by long division
        scaled == ((dot * 1000) \div mag1) * 100
                     + (((dot * 1000) % mag1) * 100) \div mag1
    IN IF mag1 > 0 /\ mag2 > 0
       THEN (scaled * 100) \div mag2
       ELSE 0

CheckCoordinatedMovementStrict(new_points, last, changed_index) ==
    LET moved == MovedIndices(new_points, last, changed_index)
    IN Cardinality(moved) >= 2

CheckCoordinatedMovementInverted(new_points, last, changed_index) ==
    IF Len(last) < 3 THEN TRUE
    ELSE LET moved == MovedIndices(new_points, last, changed_index)
             dx == [i \in moved |-> new_points[i][1] - last[i][1]]
             dy == [i \in moved |-> new_points[i][2] - last[i][2]]
             sum == <<SumOver(moved, dx), SumOver(moved, dy)>>
             cos == [i \in moved |-> Cosine1000(<<dx[i], dy[i]>>, sum)]
         IN IF Cardinality(moved) < 2 THEN TRUE
            ELSE SumOver(moved, cos) < consistency_threshold * Cardinality(moved)

\* check_coordinated_movement(new_points, changed_index), with
\* self.last_valid_keypoints = last
CheckCoordinatedMovement(new_points, last, changed_index) ==
    IF Len(last) < 3 THEN TRUE
    ELSE LET moved == MovedIndices(new_points, last, changed_index)
             dx == [i \in moved |-> new_points[i][1] - last[i][1]]
             dy == [i \in moved |-> new_points[i][2] - last[i][2]]
             sum == <<SumOver(moved, dx), SumOver(moved, dy)>>
             cos == [i \in moved |-> Cosine1000(<<dx[i], dy[i]>>, sum)]
         IN IF Cardinality(moved) < 2 THEN TRUE
            ELSE SumOver(moved, cos) > consistency_threshold * Cardinality(moved)

\* the outcome of one keypoint in the loop of stabilize_keypoints
PointOutcome(new_points, last, i) ==
    IF IsInvalid(new_points[i]) THEN "invalid"
    ELSE IF Dist2(new_points[i], last[i])
              < stabilization_threshold * stabilization_threshold THEN "stable"
    ELSE IF CheckCoordinatedMovement(new_points, last, i) THEN "moved"
    ELSE "jitter"

\* whether the loop appends new_point (and counts it valid) or last_point
TakesNew(outcome) == outcome \in {"stable", "moved"}

StabilizeCountsFirst(last, frames, stabilized, new_keypoints) ==
    IF Len(last) = 0 \/ Len(last) # Len(new_keypoints)
    THEN [last |-> new_keypoints, frames |-> frames + 1,
          stabilized |-> (frames + 1 >= stable_frames_needed) \/ stabilized,
          out |-> new_keypoints]
    ELSE LET outcome == [i \in 1..Len(new_keypoints) |->
                            PointOutcome(new_keypoints, last, i)]
             stabilized_points ==
                 [i \in 1..Len(new_keypoints) |->
                     IF TakesNew(outcome[i]) THEN new_keypoints[i] ELSE last[i]]
             valid_count ==
                 Cardinality({i \in 1..Len(new_keypoints) : TakesNew(outcome[i])})
         IN IF valid_count = Len(new_keypoints)
            THEN [last |-> stabilized_points, frames |-> frames + 1,
                  stabilized |-> (frames + 1 >= stable_frames_needed) \/ stabilized,
                  out |-> stabilized_points]
            ELSE [last |-> stabilized_points, frames |-> 0, stabilized |-> FALSE,
                  out |-> stabilized_points]

\* stabilize_keypoints(new_keypoints) from the tracking state (last, frames,
\* stabilized): the tracking state it leaves and the list it returns
Stabilize(last, frames, stabilized, new_keypoints) ==
    IF Len(last) = 0 \/ Len(last) # Len(new_keypoints)
    THEN [last |-> new_keypoints, frames |-> frames, stabilized |-> stabilized,
          out |-> new_keypoints]
    ELSE LET outcome == [i \in 1..Len(new_keypoints) |->
                            PointOutcome(new_keypoints, last, i)]
             stabilized_points ==
                 [i \in 1..Len(new_keypoints) |->
                     IF TakesNew(outcome[i]) THEN new_keypoints[i] ELSE last[i]]
             valid_count ==
                 Cardinality({i \in 1..Len(new_keypoints) : TakesNew(outcome[i])})
         IN IF valid_count = Len(new_keypoints)
            THEN [last |-> stabilized_points, frames |-> frames + 1,
                  stabilized |-> (frames + 1 >= stable_frames_needed) \/ stabilized,
                  out |-> stabilized_points]
            ELSE [last |-> stabilized_points, frames |-> 0, stabilized |-> FALSE,
                  out |-> stabilized_points]

-----------------------------------------------------------------------------
(* The active side *)

CurrentKeypoints == IF current_side = "front" THEN keypoints ELSE back_keypoints

CurrentReference == IF current_side = "front" THEN reference_image
                    ELSE back_reference_image

\* positions a tracker can report for a keypoint, as offsets from its annotated
\* position: in place, a small move (10 px) and a jump (50 px)
Offsets == {<<0, 0>>, <<8, -6>>, <<30, 40>>}

Shifted(p, d) == <<p[1] + d[1], p[2] + d[2]>>

Candidates(kp) == {Shifted(kp, d) : d \in Offsets} \cup {Sentinel}

RECURSIVE ListsUpTo(_, _)
ListsUpTo(kps, n) ==
    IF n = 0 THEN {<<>>}
    ELSE {Append(l, c) : l \in ListsUpTo(kps, n - 1), c \in Candidates(kps[n])}

\* the candidate lists a frame can give for the annotation kps
CandidateLists(kps) == ListsUpTo(kps, Len(kps))

-----------------------------------------------------------------------------
(* The tail of transfer_keypoints_robust in the feature path: the fused    *)
(* points go through the stabilizer and the live loop stores the result.   *)

TransferFused(fused_points) ==
    LET r == Stabilize(last_valid_keypoints, stabilization_frames,
                       keypoint_stabilized, fused_points)
    IN /\ stab_call = NoCall
       /\ stabilization_frames < MaxStableFrames
       /\ CurrentReference # NoImage
       /\ Len(CurrentKeypoints) > 0
       /\ live_size # CurrentReference
       /\ last_valid_keypoints' = r.last
       /\ stabilization_frames' = r.frames
       /\ keypoint_stabilized' = r.stabilized
       /\ transferred_keypoints' = r.out
       /\ is_keypoints_transferred' =
             (is_keypoints_transferred \/ Len(r.out) > 0)
       /\ stab_call' = [kind |-> "stabilize", via |-> "fused",
                        new_keypoints |-> fused_points,
                        last |-> last_valid_keypoints,
                        frames |-> stabilization_frames,
                        stabilized |-> keypoint_stabilized]
       /\ UNCHANGED <<current_side, refVars, qcVars, last_detected_scale, liveVars, loopVars, sessionVars>>

\* the record of the call is not program state: it is dropped before the next call
ForgetCall ==
    /\ stab_call # NoCall
    /\ stab_call' = NoCall
    /\ UNCHANGED <<current_side, refVars, qcVars, last_valid_keypoints,
                   stabilization_frames, keypoint_stabilized,
                   transferred_keypoints, is_keypoints_transferred,
                   last_detected_scale, liveVars, loopVars, sessionVars>>

ResetOnSwitchKeepCounter(side) ==
    /\ current_side' = side
    /\ transferred_keypoints' = <<>>
    /\ is_keypoints_transferred' = FALSE
    /\ keypoint_stabilized' = FALSE
    /\ last_valid_keypoints' = <<>>
    /\ UNCHANGED stabilization_frames

\* the assignments of switch_to_back_side / switch_to_front_side once the
\* annotation of the side is found
ResetOnSwitch(side) ==
    /\ current_side' = side
    /\ transferred_keypoints' = <<>>
    /\ is_keypoints_transferred' = FALSE
    /\ keypoint_stabilized' = FALSE
    /\ last_valid_keypoints' = <<>>
    /\ stabilization_frames' = 0

\* switch_to_back_side
SwitchToBackSide ==
    /\ current_side = "front"
    /\ stab_call = NoCall
    /\ IF Len(back_keypoints) = 0 \/ back_reference_image = NoImage
       THEN UNCHANGED <<current_side, last_valid_keypoints, stabilization_frames,
                        keypoint_stabilized, transferred_keypoints,
                        is_keypoints_transferred>>
       ELSE ResetOnSwitch("back")
    /\ UNCHANGED <<refVars, qcVars, last_detected_scale, stab_call, liveVars, loopVars, sessionVars>>

\* switch_to_front_side
SwitchToFrontSide ==
    /\ current_side = "back"
    /\ stab_call = NoCall
    /\ IF Len(keypoints) = 0 \/ reference_image = NoImage
       THEN UNCHANGED <<current_side, last_valid_keypoints, stabilization_frames,
                        keypoint_stabilized, transferred_keypoints,
                        is_keypoints_transferred>>
       ELSE ResetOnSwitch("front")
    /\ UNCHANGED <<refVars, qcVars, last_detected_scale, stab_call, liveVars, loopVars, sessionVars>>

-----------------------------------------------------------------------------
(* The stabilizer specification: a tracking session on the front side, the *)
(* back side annotated or not, fed every list of candidates frame by frame *)

StabInit ==
    /\ current_side = "front"
    /\ \E n \in 1..MaxKeypoints : keypoints = AnnotationOf(n)
    /\ back_keypoints \in {<<>>, AnnotationOf(BackKeypoints)}
    /\ placement_box = <<>>
    /\ reference_image = ReferenceSize
    /\ back_reference_image =
          IF back_keypoints = <<>> THEN NoImage ELSE ReferenceSize
    /\ live_size = ScaledLiveSize
    /\ is_calibrated = FALSE
    /\ pixels_per_cm = 0
    /\ target_distances = EmptyDict
    /\ back_target_distances = EmptyDict
    /\ qc_results = EmptyDict
    /\ annotation_file = FrontAnnotationData(keypoints, target_distances, placement_box)
    /\ back_annotation_file =
          IF back_keypoints = <<>> THEN NoFile
          ELSE BackAnnotationData(back_keypoints, back_target_distances)
    /\ qc_call = NoCall
    /\ last_valid_keypoints = <<>>
    /\ stabilization_frames = 0
    /\ keypoint_stabilized = FALSE
    /\ transferred_keypoints = <<>>
    /\ is_keypoints_transferred = FALSE
    /\ last_detected_scale = initial_scale
    /\ stab_call = NoCall
    /\ current_measurements = <<>>
    /\ InLiveLoop

StabNext ==
    \/ \E fused_points \in CandidateLists(CurrentKeypoints) :
          TransferFused(fused_points)
    \/ ForgetCall
    \/ SwitchToBackSide
    \/ SwitchToFrontSide

SpecStab == StabInit /\ [][StabNext]_vars

-----------------------------------------------------------------------------
(* _direct_placement_with_refinement: the path transfer_keypoints_robust    *)
(* takes when the frame and the reference have the same dimensions.         *)
(* Correlations (max_val of cv2.minMaxLoc) are in hundredths.               *)

\* what cv2.matchTemplate and cv2.minMaxLoc give for one keypoint: raises is
\* an error inside the try, max_loc the place of the best match in the result
MatchObservation(raises, max_val, max_loc) ==
    [raises |-> raises, max_val |-> max_val, max_loc |-> max_loc]

\* the template patch and the search region of one keypoint, as the code cuts them
DirectWindows(x, y, ref_size, frame_size) ==
    LET half_t == direct_template_size \div 2
    IN [ref_x1 |-> Max(0, x - half_t),
        ref_x2 |-> Min(ref_size[1], x + half_t),
        ref_y1 |-> Max(0, y - half_t),
        ref_y2 |-> Min(ref_size[2], y + half_t),
        search_x1 |-> Max(0, x - direct_search_radius),
        search_x2 |-> Min(frame_size[1], x + direct_search_radius),
        search_y1 |-> Max(0, y - direct_search_radius),
        search_y2 |-> Min(frame_size[2], y + direct_search_radius)]

RefinedPointAtThreshold(kp, m, ref_size, frame_size) ==
    LET x == kp[1]
        y == kp[2]
        win == DirectWindows(x, y, ref_size, frame_size)
        tw == win.ref_x2 - win.ref_x1
        th == win.ref_y2 - win.ref_y1
        refined_x == win.search_x1 + m.max_loc[1] + tw \div 2
        refined_y == win.search_y1 + m.max_loc[2] + th \div 2
    IN IF x <= 0 \/ y <= 0 \/ x >= frame_size[1] \/ y >= frame_size[2] THEN <<x, y>>
       ELSE IF tw < direct_min_template \/ th < direct_min_template THEN <<x, y>>
       ELSE IF win.search_x2 - win.search_x1 < tw
               \/ win.search_y2 - win.search_y1 < th THEN <<x, y>>
       ELSE IF m.raises THEN <<x, y>>
       ELSE IF m.max_val >= direct_match_threshold
       THEN IF Abs(refined_x - x) < direct_max_move /\ Abs(refined_y - y) < direct_max_move
            THEN <<refined_x, refined_y>>
            ELSE <<x, y>>
       ELSE <<x, y>>

RefinedPointSentinelOnError(kp, m, ref_size, frame_size) ==
    LET x == kp[1]
        y == kp[2]
        win == DirectWindows(x, y, ref_size, frame_size)
        tw == win.ref_x2 - win.ref_x1
        th == win.ref_y2 - win.ref_y1
        refined_x == win.search_x1 + m.max_loc[1] + tw \div 2
        refined_y == win.search_y1 + m.max_loc[2] + th \div 2
    IN IF x <= 0 \/ y <= 0 \/ x >= frame_size[1] \/ y >= frame_size[2] THEN <<x, y>>
       ELSE IF tw < direct_min_template \/ th < direct_min_template THEN <<x, y>>
       ELSE IF win.search_x2 - win.search_x1 < tw
               \/ win.search_y2 - win.search_y1 < th THEN <<x, y>>
       ELSE IF m.raises THEN Sentinel
       ELSE IF m.max_val > direct_match_threshold
       THEN IF Abs(refined_x - x) < direct_max_move /\ Abs(refined_y - y) < direct_max_move
            THEN <<refined_x, refined_y>>
            ELSE <<x, y>>
       ELSE <<x, y>>

\* the point the loop of _direct_placement_with_refinement appends for keypoint kp
RefinedPoint(kp, m, ref_size, frame_size) ==
    LET x == kp[1]
        y == kp[2]
        win == DirectWindows(x, y, ref_size, frame_size)
        tw == win.ref_x2 - win.ref_x1
        th == win.ref_y2 - win.ref_y1
        refined_x == win.search_x1 + m.max_loc[1] + tw \div 2
        refined_y == win.search_y1 + m.max_loc[2] + th \div 2
    IN IF x <= 0 \/ y <= 0 \/ x >= frame_size[1] \/ y >= frame_size[2] THEN <<x, y>>
       ELSE IF tw < direct_min_template \/ th < direct_min_template THEN <<x, y>>
       ELSE IF win.search_x2 - win.search_x1 < tw
               \/ win.search_y2 - win.search_y1 < th THEN <<x, y>>
       ELSE IF m.raises THEN <<x, y>>
       ELSE IF m.max_val > direct_match_threshold
       THEN IF Abs(refined_x - x) < direct_max_move /\ Abs(refined_y - y) < direct_max_move
            THEN <<refined_x, refined_y>>
            ELSE <<x, y>>
       ELSE <<x, y>>

\* the places max_loc can take for keypoint kp: cv2.matchTemplate slides the
\* template over the search region, the result has one entry per placement
MatchLocations(kp, ref_size, frame_size) ==
    LET win == DirectWindows(kp[1], kp[2], ref_size, frame_size)
        tw == win.ref_x2 - win.ref_x1
        th == win.ref_y2 - win.ref_y1
    IN {loc \in {<<kp[1] + d[1] - win.search_x1 - tw \div 2,
                   kp[2] + d[2] - win.search_y1 - th \div 2>> : d \in Offsets} :
           /\ loc[1] \in 0..(win.search_x2 - win.search_x1 - tw)
           /\ loc[2] \in 0..(win.search_y2 - win.search_y1 - th)}

\* a correlation at the threshold, one just above it
Correlations == {direct_match_threshold, direct_match_threshold + 1}

\* what template matching can observe for keypoint kp on one frame
MatchObservations(kp, ref_size, frame_size) ==
    {MatchObservation(TRUE, 0, <<0, 0>>)}
    \cup {MatchObservation(FALSE, c, loc) :
             c \in Correlations, loc \in MatchLocations(kp, ref_size, frame_size)}

RECURSIVE ObservationLists(_, _, _, _)
ObservationLists(kps, n, ref_size, frame_size) ==
    IF n = 0 THEN {<<>>}
    ELSE {Append(l, m) : l \in ObservationLists(kps, n - 1, ref_size, frame_size),
                         m \in MatchObservations(kps[n], ref_size, frame_size)}

\* transfer_keypoints_robust on a frame of the dimensions of the reference:
\* the refined points go through the stabilizer, the live loop stores the result
TransferDirect(observed) ==
    LET kps == CurrentKeypoints
        refined_points == [i \in 1..Len(kps) |->
                              RefinedPoint(kps[i], observed[i], CurrentReference,
                                           live_size)]
        r == Stabilize(last_valid_keypoints, stabilization_frames,
                       keypoint_stabilized, refined_points)
    IN /\ stab_call = NoCall
       /\ stabilization_frames < MaxStableFrames
       /\ CurrentReference # NoImage
       /\ Len(kps) > 0
       /\ live_size = CurrentReference
       /\ last_valid_keypoints' = r.last
       /\ stabilization_frames' = r.frames
       /\ keypoint_stabilized' = r.stabilized
       /\ transferred_keypoints' = r.out
       /\ is_keypoints_transferred' =
             (is_keypoints_transferred \/ Len(r.out) > 0)
       /\ stab_call' = [kind |-> "stabilize", via |-> "direct",
                        max_val |-> [i \in 1..Len(kps) |-> observed[i].max_val],
                        raises |-> [i \in 1..Len(kps) |-> observed[i].raises],
                        new_keypoints |-> refined_points,
                        last |-> last_valid_keypoints,
                        frames |-> stabilization_frames,
                        stabilized |-> keypoint_stabilized]
       /\ UNCHANGED <<current_side, refVars, qcVars, last_detected_scale, liveVars, loopVars, sessionVars>>

-----------------------------------------------------------------------------
(* The direct placement specification: a tracking session whose camera      *)
(* delivers frames of the dimensions of the reference images.               *)

DirectInit ==
    /\ current_side = "front"
    /\ \E n \in 1..MaxKeypoints : keypoints = AnnotationOf(n)
    /\ back_keypoints \in {<<>>, AnnotationOf(BackKeypoints)}
    /\ placement_box = <<>>
    /\ reference_image = ReferenceSize
    /\ back_reference_image =
          IF back_keypoints = <<>> THEN NoImage ELSE ReferenceSize
    /\ live_size = ReferenceSize
    /\ is_calibrated = FALSE
    /\ pixels_per_cm = 0
    /\ target_distances = EmptyDict
    /\ back_target_distances = EmptyDict
    /\ qc_results = EmptyDict
    /\ annotation_file = FrontAnnotationData(keypoints, target_distances, placement_box)
    /\ back_annotation_file =
          IF back_keypoints = <<>> THEN NoFile
          ELSE BackAnnotationData(back_keypoints, back_target_distances)
    /\ qc_call = NoCall
    /\ last_valid_keypoints = <<>>
    /\ stabilization_frames = 0
    /\ keypoint_stabilized = FALSE
    /\ transferred_keypoints = <<>>
    /\ is_keypoints_transferred = FALSE
    /\ last_detected_scale = initial_scale
    /\ stab_call = NoCall
    /\ current_measurements = <<>>
    /\ InLiveLoop

DirectNext ==
    \/ \E observed \in ObservationLists(CurrentKeypoints, Len(CurrentKeypoints),
                                        CurrentReference, live_size) :
          TransferDirect(observed)
    \/ ForgetCall
    \/ SwitchToBackSide
    \/ SwitchToFrontSide

SpecDirect == DirectInit /\ [][DirectNext]_vars

-----------------------------------------------------------------------------
(* The feature path of transfer_keypoints_robust: ORB matches, homography   *)
(* or MLS candidates.  Homography entries are in tenths, determinants in    *)
(* thousandths, scales in hundredths; transferred coordinates are floored   *)
(* to whole pixels.                                                         *)

\* a match: a feature of the reference (queryIdx) and the feature of the frame
\* (trainIdx) it is matched to
Match(src, dst) == [src |-> src, dst |-> dst]

\* int(orig_pt[0] * scale_x), int(orig_pt[1] * scale_y), scale = frame / reference
ScaledPoint(p, ref_size, frame_size) ==
    <<(p[1] * frame_size[1]) \div ref_size[1],
      (p[2] * frame_size[2]) \div ref_size[2]>>

\* places of the reference where ORB finds the features it matches
FeatureSites == <<<<90, 100>>, <<310, 100>>>>

\* k matches spread over the feature sites, each matched to the place the
\* camera of ScaledLiveSize shows it at
MatchList(k) ==
    [i \in 1..k |->
        LET site == FeatureSites[((i - 1) % Len(FeatureSites)) + 1]
        IN Match(site, ScaledPoint(site, ReferenceSize, ScaledLiveSize))]

\* no match, and the counts on either side of min_matches and of the 20 of
\* the homography
MatchCounts == {0, min_matches - 1, min_matches,
                homography_min_matches - 1, homography_min_matches}

\* the match lists and the annotations of the model; what estimate_scale_change
\* and transfer_with_mls compute from them is tabulated once
MatchLists == {MatchList(k) : k \in MatchCounts}

Annotations == {AnnotationOf(n) : n \in 1..MaxKeypoints} \cup {AnnotationOf(BackKeypoints)}

\* the pairs of matches estimate_scale_change keeps: i < j, ref_dist > 10
ScalePairs(matches) ==
    {pr \in (1..Len(matches)) \X (1..Len(matches)) :
        /\ pr[1] < pr[2]
        /\ Dist2(matches[pr[1]].src, matches[pr[2]].src)
              > scale_min_distance * scale_min_distance}

\* curr_d / ref_d of a pair, in hundredths
ScaleRatio(matches, pr) ==
    ISqrt((Dist2(matches[pr[1]].dst, matches[pr[2]].dst) * 10000)
             \div Dist2(matches[pr[1]].src, matches[pr[2]].src))

\* the k-th smallest of the values f takes over S
KthSmallest(S, f, k) ==
    CHOOSE v \in {f[e] : e \in S} :
        /\ Cardinality({e \in S : f[e] < v}) < k
        /\ Cardinality({e \in S : f[e] <= v}) >= k

\* np.median
Median(S, f) ==
    LET m == Cardinality(S)
    IN (KthSmallest(S, f, (m + 1) \div 2) + KthSmallest(S, f, m \div 2 + 1)) \div 2

\* the number of scales estimate_scale_change collects and their median
ScaleStatistics(matches) ==
    LET pairs == ScalePairs(matches)
        ratio == [pr \in pairs |-> ScaleRatio(matches, pr)]
    IN [count |-> Cardinality(pairs),
        median_scale |-> IF pairs = {} THEN 0 ELSE Median(pairs, ratio)]

ScaleStatisticsTable == [m \in MatchLists |-> ScaleStatistics(m)]

\* lines 831-842: the smoothed scale, from the scales collected
SmoothedScale(stats, last_scale) ==
    LET smoothed == (last_scale * (100 - scale_smoothing_factor)
                       + stats.median_scale * scale_smoothing_factor) \div 100
    IN IF stats.count = 0 THEN [ret |-> initial_scale, scale |-> last_scale]
       ELSE [ret |-> smoothed, scale |-> smoothed]

\* estimate_scale_change: what it returns and what it leaves in last_detected_scale
EstimateScaleChange(matches, last_scale) ==
    IF Len(matches) < scale_min_matches
    THEN [ret |-> initial_scale, scale |-> last_scale]
    ELSE SmoothedScale(IF matches \in MatchLists THEN ScaleStatisticsTable[matches]
                       ELSE ScaleStatistics(matches),
                       last_scale)

\* cv2.findHomography found nothing (None)
NoHomography == <<>>

\* np.linalg.det of a 3 x 3 matrix
Det3(H) ==
    H[1][1] * (H[2][2] * H[3][3] - H[2][3] * H[3][2])
      - H[1][2] * (H[2][1] * H[3][3] - H[2][3] * H[3][1])
      + H[1][3] * (H[2][1] * H[3][2] - H[2][2] * H[3][1])

\* cv2.perspectiveTransform of one point
PerspectiveTransform(H, p) ==
    LET w == H[3][1] * p[1] + H[3][2] * p[2] + H[3][3]
    IN <<(H[1][1] * p[1] + H[1][2] * p[2] + H[1][3]) \div w,
         (H[2][1] * p[1] + H[2][2] * p[2] + H[2][3]) \div w>>

TransferWithHomographyNoUpperBound(kps, matches, H) ==
    IF Len(matches) < min_matches THEN <<>>
    ELSE IF H = NoHomography THEN <<>>
    ELSE IF homography_det_min < Abs(Det3(H))
    THEN [i \in 1..Len(kps) |-> PerspectiveTransform(H, kps[i])]
    ELSE <<>>

\* the points transfer_with_homography returns, H being what cv2.findHomography
\* gave (an error inside the try returns no points, as NoHomography does)
TransferWithHomography(kps, matches, H) ==
    IF Len(matches) < min_matches THEN <<>>
    ELSE IF H = NoHomography THEN <<>>
    ELSE IF homography_det_min < Abs(Det3(H)) /\ Abs(Det3(H)) < homography_det_max
    THEN [i \in 1..Len(kps) |-> PerspectiveTransform(H, kps[i])]
    ELSE <<>>

RECURSIVE Gcd(_, _)
Gcd(a, b) == IF b = 0 THEN a ELSE Gcd(b, a % b)

Lcm(a, b) == (a \div Gcd(a, b)) * b

RECURSIVE LcmOver(_)
LcmOver(S) ==
    IF S = {} THEN 1
    ELSE LET v == CHOOSE x \in S : TRUE IN Lcm(v, LcmOver(S \ {v}))

MlsPointSkippingZeroDistance(ref_point, matches) ==
    LET idx == {i \in 1..Len(matches) : Dist2(ref_point, matches[i].src) # 0}
        total_weight == Cardinality(idx)
    IN IF total_weight > 0
       THEN <<SumOver(idx, [i \in idx |-> matches[i].dst[1]]) \div total_weight,
              SumOver(idx, [i \in idx |-> matches[i].dst[2]]) \div total_weight>>
       ELSE Sentinel

\* the position transfer_with_mls gives one reference keypoint: the mean of the
\* matched frame points weighted by 1 / distance ** (2 * alpha), alpha = 1.0,
\* and by 1e6 at distance 0.  The weights are taken in the unit 1 / unit, the
\* least common multiple of the squared distances, which makes them integers.
MlsPoint(ref_point, matches) ==
    LET idx == 1..Len(matches)
        d2 == [i \in idx |-> Dist2(ref_point, matches[i].src)]
        unit == LcmOver({d2[i] : i \in idx} \ {0})
        weight == [i \in idx |-> IF d2[i] = 0 THEN mls_zero_weight * unit
                                 ELSE unit \div d2[i]]
        total_weight == SumOver(idx, weight)
        weighted_x == SumOver(idx, [i \in idx |-> weight[i] * matches[i].dst[1]])
        weighted_y == SumOver(idx, [i \in idx |-> weight[i] * matches[i].dst[2]])
    IN IF total_weight > 0
       THEN <<weighted_x \div total_weight, weighted_y \div total_weight>>
       ELSE Sentinel

MlsPoints(kps, matches) == [i \in 1..Len(kps) |-> MlsPoint(kps[i], matches)]

MlsPointsTable == [kps \in Annotations, m \in MatchLists |-> MlsPoints(kps, m)]

\* the points transfer_with_mls returns; raises is an error inside its try
TransferWithMls(kps, matches, raises) ==
    IF Len(matches) < mls_min_matches THEN <<>>
    ELSE IF raises THEN <<>>
    ELSE IF kps \in Annotations /\ matches \in MatchLists
    THEN MlsPointsTable[kps, matches]
    ELSE MlsPoints(kps, matches)

AllSentinel(n) == [i \in 1..n |-> Sentinel]

\* self.transfer_method, never reassigned
transfer_method == "homography"

ChosenCandidatesHomographyFromMinMatches(kps, frame, last_scale, est, homography_points, mls_points) ==
    LET matches == frame.matches
    IN IF ~frame.desc \/ Len(matches) < min_matches
       THEN [scale_factor |-> initial_scale, scale |-> last_scale,
             method |-> "none", H |-> NoHomography,
             homography_points |-> <<>>, mls_points |-> <<>>,
             feature_points |-> AllSentinel(Len(kps))]
       ELSE IF Len(homography_points) > 0
       THEN [scale_factor |-> est.ret, scale |-> est.scale,
             method |-> "homography", H |-> frame.H,
             homography_points |-> homography_points, mls_points |-> <<>>,
             feature_points |-> homography_points]
       ELSE [scale_factor |-> est.ret, scale |-> est.scale,
             method |-> "mls_fallback", H |-> frame.H,
             homography_points |-> homography_points,
             mls_points |-> mls_points,
             feature_points |-> mls_points]

\* lines 1263-1293: the feature candidates of one frame.  frame.desc is whether
\* both descriptor sets are there, frame.matches what match_features_fast
\* returned, frame.H what cv2.findHomography would return, frame.mls_raises
\* whether transfer_with_mls fails.  method is the transfer the code reports.
ChosenCandidates(kps, frame, last_scale, est, homography_points, mls_points) ==
    LET matches == frame.matches
        none == [scale_factor |-> initial_scale, scale |-> last_scale,
                 method |-> "none", H |-> NoHomography,
                 homography_points |-> <<>>, mls_points |-> <<>>,
                 feature_points |-> AllSentinel(Len(kps))]
    IN IF ~frame.desc THEN none
       ELSE IF Len(matches) < min_matches THEN none
       ELSE IF Len(matches) >= homography_min_matches
               /\ transfer_method \in {"homography", "auto"}
       THEN IF Len(homography_points) > 0
            THEN [scale_factor |-> est.ret, scale |-> est.scale,
                  method |-> "homography", H |-> frame.H,
                  homography_points |-> homography_points, mls_points |-> <<>>,
                  feature_points |-> homography_points]
            ELSE [scale_factor |-> est.ret, scale |-> est.scale,
                  method |-> "mls_fallback", H |-> frame.H,
                  homography_points |-> homography_points,
                  mls_points |-> mls_points,
                  feature_points |-> mls_points]
       ELSE [scale_factor |-> est.ret, scale |-> est.scale,
             method |-> "mls", H |-> NoHomography,
             homography_points |-> <<>>, mls_points |-> mls_points,
             feature_points |-> mls_points]

\* the candidates, from what estimate_scale_change, transfer_with_homography
\* and transfer_with_mls give where the code calls them
FeatureCandidates(kps, frame, last_scale) ==
    ChosenCandidates(kps, frame, last_scale,
                     EstimateScaleChange(frame.matches, last_scale),
                     TransferWithHomography(kps, frame.matches, frame.H),
                     TransferWithMls(kps, frame.matches, frame.mls_raises))

-----------------------------------------------------------------------------
(* Fusion and the whole of transfer_keypoints_robust in the feature path *)

FusedPointAlwaysStrong(i, feat_pt, temp_pt, corner_points, n_matches) ==
    IF i - 1 < corner_keypoints_count /\ i - 1 < Len(corner_points)
    THEN IF corner_points[i][1] # -1 THEN corner_points[i]
         ELSE IF feat_pt[1] # -1 THEN feat_pt
         ELSE IF temp_pt[1] # -1 THEN temp_pt
         ELSE Sentinel
    ELSE IF feat_pt[1] # -1 /\ temp_pt[1] # -1
    THEN IF Dist2(feat_pt, temp_pt) < fusion_agreement * fusion_agreement
         THEN <<(feat_pt[1] * feature_weight_strong
                   + temp_pt[1] * (10 - feature_weight_strong)) \div 10,
                (feat_pt[2] * feature_weight_strong
                   + temp_pt[2] * (10 - feature_weight_strong)) \div 10>>
         ELSE feat_pt
    ELSE IF feat_pt[1] # -1 THEN feat_pt
    ELSE IF temp_pt[1] # -1 THEN temp_pt
    ELSE Sentinel

\* lines 1307-1361: the fused point of keypoint i (index i - 1 in the code)
FusedPoint(i, feat_pt, temp_pt, corner_points, n_matches) ==
    IF i - 1 < corner_keypoints_count /\ i - 1 < Len(corner_points)
    THEN IF corner_points[i][1] # -1 THEN corner_points[i]
         ELSE IF feat_pt[1] # -1 THEN feat_pt
         ELSE IF temp_pt[1] # -1 THEN temp_pt
         ELSE Sentinel
    ELSE IF feat_pt[1] # -1 /\ temp_pt[1] # -1
    THEN IF Dist2(feat_pt, temp_pt) < fusion_agreement * fusion_agreement
         THEN LET feature_weight == IF n_matches >= min_matches
                                    THEN feature_weight_strong
                                    ELSE feature_weight_weak
                  template_weight == 10 - feature_weight
              IN <<(feat_pt[1] * feature_weight + temp_pt[1] * template_weight) \div 10,
                   (feat_pt[2] * feature_weight + temp_pt[2] * template_weight) \div 10>>
         ELSE IF n_matches >= min_matches THEN feat_pt ELSE temp_pt
    ELSE IF feat_pt[1] # -1 THEN feat_pt
    ELSE IF temp_pt[1] # -1 THEN temp_pt
    ELSE Sentinel

\* lines 1257-1385 from the tracking state (last, frames, stabilized,
\* last_scale).  frame.template_points and frame.corner_points are what
\* template_match_keypoints and detect_corners_robust found, and
\* frame.fallback_points what template_match_keypoints(current_gray, 1.0) finds
\* in the except branch.  Two errors reach the except branch: an index beyond
\* the end of feature_points when transfer_with_mls returned no points, and
\* len(matches) at line 1364 when matches was never assigned.
FusedPoints(kps, frame, c) ==
    [i \in 1..Len(kps) |->
        FusedPoint(i, c.feature_points[i], frame.template_points[i],
                   frame.corner_points, Len(frame.matches))]

\* the stabilized points of the try branch
StabilizedTransfer(c, fused_points, r) ==
    [error |-> "none", candidates |-> c, fused |-> fused_points,
     last |-> r.last, frames |-> r.frames, stabilized |-> r.stabilized,
     out |-> r.out, scale |-> c.scale]

FusedTransfer(c, fused_points, last, frames, stabilized) ==
    StabilizedTransfer(c, fused_points,
                       Stabilize(last, frames, stabilized, fused_points))

CandidateTransfer(kps, frame, last, frames, stabilized, c) ==
    LET n == Len(kps)
        index_error == Len(c.feature_points) < n \/ Len(frame.template_points) < n
        unbound_error == ~frame.desc
    IN IF index_error \/ unbound_error
       THEN [error |-> IF index_error THEN "IndexError" ELSE "UnboundLocalError",
             candidates |-> c, fused |-> <<>>,
             last |-> last, frames |-> frames, stabilized |-> stabilized,
             out |-> frame.fallback_points, scale |-> c.scale]
       ELSE FusedTransfer(c, FusedPoints(kps, frame, c), last, frames, stabilized)

FeatureTransfer(kps, frame, last, frames, stabilized, last_scale) ==
    CandidateTransfer(kps, frame, last, frames, stabilized,
                      FeatureCandidates(kps, frame, last_scale))

\* transfer_keypoints_robust on a frame of other dimensions than the reference;
\* the live loop stores what it returns
StoreFeatureTransfer(frame, t) ==
       /\ stab_call = NoCall
       /\ stabilization_frames < MaxStableFrames
       /\ CurrentReference # NoImage
       /\ Len(CurrentKeypoints) > 0
       /\ live_size # CurrentReference
       /\ last_valid_keypoints' = t.last
       /\ stabilization_frames' = t.frames
       /\ keypoint_stabilized' = t.stabilized
       /\ last_detected_scale' = t.scale
       /\ transferred_keypoints' = t.out
       /\ is_keypoints_transferred' =
             (is_keypoints_transferred \/ Len(t.out) > 0)
       /\ stab_call' = [kind |-> IF t.error = "none" THEN "stabilize" ELSE "error",
                        via |-> "feature",
                        error |-> t.error,
                        desc |-> frame.desc,
                        n_matches |-> Len(frame.matches),
                        method |-> t.candidates.method,
                        H |-> t.candidates.H,
                        homography_points |-> t.candidates.homography_points,
                        mls_points |-> t.candidates.mls_points,
                        feature_points |-> t.candidates.feature_points,
                        new_keypoints |-> t.fused]
       /\ UNCHANGED <<current_side, refVars, qcVars, liveVars, loopVars, sessionVars>>

TransferFeature(frame) ==
    StoreFeatureTransfer(frame,
        FeatureTransfer(CurrentKeypoints, frame, last_valid_keypoints,
                        stabilization_frames, keypoint_stabilized,
                        last_detected_scale))

-----------------------------------------------------------------------------
(* What a frame can show in the feature path *)

\* the scale of ScaledLiveSize followed by a translation, in tenths
ScaleAndShift(d) == <<<<11, 0, 10 * d[1]>>, <<0, 11, 10 * d[2]>>, <<0, 0, 10>>>>

Diagonal(a, b, c) == <<<<a, 0, 0>>, <<0, b, 0>>, <<0, 0, c>>>>

\* determinants 0.1, 10.0, 0 and -20.0
DegenerateHomographies ==
    {Diagonal(10, 1, 10), Diagonal(100, 10, 10), Diagonal(11, 0, 10),
     Diagonal(-100, 20, 10)}

Homographies ==
    {NoHomography} \cup {ScaleAndShift(d) : d \in Offsets} \cup DegenerateHomographies

\* what feature extraction, matching, cv2.findHomography and MLS give on a
\* frame; transfer_with_mls is called, and can fail, when there are matches
\* enough and no homography is accepted
FeatureObservations ==
    {[desc |-> FALSE, matches |-> <<>>, H |-> NoHomography, mls_raises |-> FALSE]}
    \cup UNION {{[desc |-> TRUE, matches |-> MatchList(k), H |-> NoHomography,
                  mls_raises |-> raises] : raises \in {FALSE, k >= min_matches}} :
                   k \in {j \in MatchCounts : j < homography_min_matches}}
    \cup UNION {{[desc |-> TRUE, matches |-> MatchList(k[1]), H |-> k[2],
                  mls_raises |-> raises] :
                     raises \in {FALSE, k[2] \in DegenerateHomographies
                                                  \cup {NoHomography}}} :
                   k \in {j \in MatchCounts : j >= homography_min_matches}
                          \X Homographies}

\* keypoint by keypoint, where the camera of frame_size shows the annotation
ShownAt(kps, ref_size, frame_size) ==
    [i \in 1..Len(kps) |-> ScaledPoint(kps[i], ref_size, frame_size)]

\* what template matching and corner detection give together: nothing; every
\* keypoint by its template; every keypoint but the first by its template; a
\* corner 50 px off the first keypoint only; every keypoint by its template and
\* by a corner 50 px off
LocalObservations(kps, ref_size, frame_size) ==
    LET n == Len(kps)
        found == ShownAt(kps, ref_size, frame_size)
        corners == [i \in 1..n |-> Shifted(found[i], <<30, 40>>)]
    IN {[template_points |-> AllSentinel(n), corner_points |-> AllSentinel(n)],
        [template_points |-> found, corner_points |-> AllSentinel(n)],
        [template_points |-> [i \in 1..n |-> IF i = 1 THEN Sentinel ELSE found[i]],
         corner_points |-> AllSentinel(n)],
        [template_points |-> AllSentinel(n),
         corner_points |-> [i \in 1..n |-> IF i = 1 THEN corners[i] ELSE Sentinel]],
        [template_points |-> found, corner_points |-> corners]}

\* what template_match_keypoints(current_gray, 1.0) gives in the except
\* branch, which a frame without descriptors or with a failing MLS reaches
FallbackObservations(kps, ref_size, frame_size, f) ==
    IF ~f.desc \/ f.mls_raises
    THEN {AllSentinel(Len(kps)), ShownAt(kps, ref_size, frame_size)}
    ELSE {AllSentinel(Len(kps))}

FeatureFrames(kps, ref_size, frame_size) ==
    UNION {{[desc |-> f.desc, matches |-> f.matches, H |-> f.H,
             mls_raises |-> f.mls_raises,
             template_points |-> l.template_points,
             corner_points |-> l.corner_points,
             fallback_points |-> b] :
               l \in LocalObservations(kps, ref_size, frame_size),
               b \in FallbackObservations(kps, ref_size, frame_size, f)} :
            f \in FeatureObservations}

-----------------------------------------------------------------------------
(* The feature specification: a tracking session on the front side whose    *)
(* camera delivers frames of other dimensions than the reference images.    *)

FeatInit ==
    /\ current_side = "front"
    /\ \E n \in 1..MaxKeypoints : keypoints = AnnotationOf(n)
    /\ back_keypoints = <<>>
    /\ placement_box = <<>>
    /\ reference_image = ReferenceSize
    /\ back_reference_image = NoImage
    /\ live_size = ScaledLiveSize
    /\ is_calibrated = FALSE
    /\ pixels_per_cm = 0
    /\ target_distances = EmptyDict
    /\ back_target_distances = EmptyDict
    /\ qc_results = EmptyDict
    /\ annotation_file = FrontAnnotationData(keypoints, target_distances, placement_box)
    /\ back_annotation_file =
          IF back_keypoints = <<>> THEN NoFile
          ELSE BackAnnotationData(back_keypoints, back_target_distances)
    /\ qc_call = NoCall
    /\ last_valid_keypoints = <<>>
    /\ stabilization_frames = 0
    /\ keypoint_stabilized = FALSE
    /\ transferred_keypoints = <<>>
    /\ is_keypoints_transferred = FALSE
    /\ last_detected_scale = initial_scale
    /\ stab_call = NoCall
    /\ current_measurements = <<>>
    /\ InLiveLoop

FeatNext ==
    \/ \E frame \in FeatureFrames(CurrentKeypoints, CurrentReference, live_size) :
          TransferFeature(frame)
    \/ ForgetCall

SpecFeat == FeatInit /\ [][FeatNext]_vars

-----------------------------------------------------------------------------
(* The live loop of transfer_keypoints_to_live.  One iteration transfers    *)
(* the keypoints of a frame, measures the pairs and, in a calibrated        *)
(* session, checks each measurement.  Pixel distances are floored to whole  *)
(* pixels and real distances to whole centimetres.                          *)

\* what transfer_keypoints_robust returns and leaves behind in direct mode
StabilizedDirect(refined_points, r) ==
    [mode |-> "direct", error |-> "none", new_keypoints |-> refined_points,
     last |-> r.last, frames |-> r.frames, stabilized |-> r.stabilized,
     scale |-> last_detected_scale, out |-> r.out]

DirectTransfer(refined_points) ==
    StabilizedDirect(refined_points,
                     Stabilize(last_valid_keypoints, stabilization_frames,
                               keypoint_stabilized, refined_points))

\* what it returns and leaves behind in the feature path
ScaledTransfer(t) ==
    [mode |-> "feature", error |-> t.error, new_keypoints |-> t.fused,
     last |-> t.last, frames |-> t.frames, stabilized |-> t.stabilized,
     scale |-> t.scale, out |-> t.out]

\* transfer_keypoints_robust on one frame, from the state of the session:
\* nothing without a reference or keypoints, direct placement on a frame of
\* the dimensions of the reference, the feature path otherwise
TransferKeypointsRobust(frame) ==
    IF CurrentReference = NoImage \/ Len(CurrentKeypoints) = 0
    THEN [mode |-> "none", error |-> "none", new_keypoints |-> <<>>,
          last |-> last_valid_keypoints, frames |-> stabilization_frames,
          stabilized |-> keypoint_stabilized, scale |-> last_detected_scale,
          out |-> <<>>]
    ELSE IF live_size = CurrentReference
    THEN DirectTransfer([i \in 1..Len(CurrentKeypoints) |->
                            RefinedPoint(CurrentKeypoints[i], frame.observed[i],
                                         CurrentReference, live_size)])
    ELSE ScaledTransfer(FeatureTransfer(CurrentKeypoints, frame,
                                        last_valid_keypoints, stabilization_frames,
                                        keypoint_stabilized, last_detected_scale))

PairStartsEveryIndex(n) == 0..(n - 2)

\* range(0, len(self.transferred_keypoints) - 1, 2): the 0-based index of the
\* first keypoint of each pair
PairStarts(n) == {i \in 0..(n - 2) : i % 2 = 0}

PairIsFallbackFirstOnly(p1, p2) == IsInvalid(p1)

\* is_fallback = p1_tracking_failed or p2_tracking_failed
PairIsFallback(p1, p2) == IsInvalid(p1) \/ IsInvalid(p2)

\* math.sqrt((p2[0]-p1[0])**2 + (p2[1]-p1[1])**2), floored
PixelDistance(p1, p2) == ISqrt(Dist2(p1, p2))

\* [int(orig[0] * scale_x), int(orig[1] * scale_y)]; the scale is 1.0 without
\* a reference image
FallbackPoint(orig, ref_size, frame_size) ==
    IF ref_size = NoImage THEN orig ELSE ScaledPoint(orig, ref_size, frame_size)

\* lines 2979-3022: the two points the pair starting at index i (0-based) is
\* measured between, <<>> when the iteration skips the pair
PairPoints(tk, kps, i, ref_size, frame_size) ==
    LET p1 == tk[i + 1]
        p2 == tk[i + 2]
        p1_tracking_failed == IsInvalid(p1)
        p2_tracking_failed == IsInvalid(p2)
        has_orig_p1 == i < Len(kps)
        has_orig_p2 == i + 1 < Len(kps)
        used == IF p1_tracking_failed /\ p2_tracking_failed
                THEN IF has_orig_p1 /\ has_orig_p2
                     THEN <<FallbackPoint(kps[i + 1], ref_size, frame_size),
                            FallbackPoint(kps[i + 2], ref_size, frame_size)>>
                     ELSE <<>>
                ELSE IF p1_tracking_failed /\ has_orig_p1
                THEN <<FallbackPoint(kps[i + 1], ref_size, frame_size), p2>>
                ELSE IF p2_tracking_failed /\ has_orig_p2
                THEN <<p1, FallbackPoint(kps[i + 2], ref_size, frame_size)>>
                ELSE <<p1, p2>>
    IN IF used = <<>> THEN <<>>
       ELSE IF IsInvalid(used[1]) \/ IsInvalid(used[2]) THEN <<>>
       ELSE used

\* a tuple of current_measurements
Measurement(pair_num, real_distance, pixel_distance, qc_passed, is_fallback) ==
    [pair_num |-> pair_num, real_distance |-> real_distance,
     pixel_distance |-> pixel_distance, qc_passed |-> qc_passed,
     is_fallback |-> is_fallback]

\* 'tolerance_cm': 1.0, 'tolerance_plus': 1.0, 'tolerance_minus': 1.0
snapshot_tolerance_cm == 1

\* the measurement_data save_live_measurements dumps to live_measurements.json
\* for the records of an iteration
SaveLiveMeasurements(measurements) ==
    [side |-> current_side,
     is_calibrated |-> is_calibrated,
     pixels_per_cm |-> pixels_per_cm,
     tolerance_cm |-> snapshot_tolerance_cm,
     measurements |->
        [j \in 1..Len(measurements) |->
            [id |-> measurements[j].pair_num,
             actual_cm |-> measurements[j].real_distance,
             pixel_distance |-> measurements[j].pixel_distance,
             tolerance_plus |-> snapshot_tolerance_cm,
             tolerance_minus |-> snapshot_tolerance_cm,
             min_valid |-> measurements[j].real_distance - snapshot_tolerance_cm,
             max_valid |-> measurements[j].real_distance + snapshot_tolerance_cm,
             qc_passed |-> measurements[j].qc_passed,
             is_fallback |-> measurements[j].is_fallback]]]

\* lines 3027-3051: the record of one measured pair and what check_qc leaves;
\* st carries the targets and results left so far and the records so far
CheckedRecord(st, pair_num, real_distance, pixel_distance, is_fallback, e) ==
    [front |-> e.front, back |-> e.back, qc |-> e.qc,
     saved |-> st.saved \/ e.saved,
     calls |-> st.calls + 1,
     records |-> Append(st.records,
                        Measurement(pair_num, real_distance, pixel_distance,
                                    e.ret, is_fallback))]

CalibratedRecord(st, pair_num, real_distance, pixel_distance, is_fallback, io_ok) ==
    CheckedRecord(st, pair_num, real_distance, pixel_distance, is_fallback,
                  CheckQcFrom(st.front, st.back, st.qc, pair_num, real_distance,
                              io_ok))

PairRecordAlwaysChecked(st, pair_num, pixel_distance, is_fallback, io_ok) ==
    CalibratedRecord(st, pair_num, pixel_distance, pixel_distance, is_fallback,
                     io_ok)

PairRecord(st, pair_num, pixel_distance, is_fallback, io_ok) ==
    IF is_calibrated
    THEN CalibratedRecord(st, pair_num, pixel_distance \div pixels_per_cm,
                          pixel_distance, is_fallback, io_ok)
    ELSE [st EXCEPT !.records =
             Append(@, Measurement(pair_num, 0, pixel_distance, FALSE,
                                   is_fallback))]

\* lines 2979-3051: the body of the loop for the pair starting at index i
MeasuredPair(st, tk, i, used, io_ok) ==
    IF used = <<>> THEN st
    ELSE PairRecord(st, i \div 2 + 1, PixelDistance(used[1], used[2]),
                    PairIsFallback(tk[i + 1], tk[i + 2]), io_ok)

MeasurePair(st, tk, i, io_ok) ==
    IF ~(i + 1 < Len(tk)) THEN st
    ELSE MeasuredPair(st, tk, i,
                      PairPoints(tk, CurrentKeypoints, i, CurrentReference,
                                 live_size),
                      io_ok)

\* lines 2978-3051: the loop over the pairs, in the order of range()
RECURSIVE MeasureLoop(_, _, _, _)
MeasureLoop(starts, tk, st, io_ok) ==
    IF starts = {} THEN st
    ELSE LET i == CHOOSE a \in starts : \A b \in starts : a <= b
         IN MeasureLoop(starts \ {i}, tk, MeasurePair(st, tk, i, io_ok), io_ok)

\* lines 2896-3051: current_measurements = [] and, once keypoints are
\* transferred, the loop over the pairs
MeasurePairs(tk, transferred, io_ok) ==
    IF transferred /\ Len(tk) > 0
    THEN MeasureLoop(PairStarts(Len(tk)), tk,
                     [front |-> target_distances, back |-> back_target_distances,
                      qc |-> qc_results, saved |-> FALSE, calls |-> 0,
                      records |-> <<>>],
                     io_ok)
    ELSE [front |-> target_distances, back |-> back_target_distances,
          qc |-> qc_results, saved |-> FALSE, calls |-> 0,
                      records |-> <<>>]

\* the assignments of an iteration that transferred t and measured m
StoreIteration(t, transferred, m) ==
    /\ stab_call = NoCall
    /\ stabilization_frames < MaxStableFrames
    /\ last_valid_keypoints' = t.last
    /\ stabilization_frames' = t.frames
    /\ keypoint_stabilized' = t.stabilized
    /\ last_detected_scale' = t.scale
    /\ transferred_keypoints' = t.out
    /\ is_keypoints_transferred' = transferred
    /\ stab_call' = [kind |-> IF t.error = "none" THEN "stabilize" ELSE "error",
                     via |-> "live", mode |-> t.mode,
                     new_keypoints |-> t.new_keypoints]
    /\ ApplyCheckQc(m)
    /\ current_measurements' = m.records
    /\ UNCHANGED <<current_side, refVars, qc_call, loopVars, sessionVars>>

MeasureTransferred(t, transferred, io_ok) ==
    StoreIteration(t, transferred, MeasurePairs(t.out, transferred, io_ok))

\* an iteration of the loop whose transfer interval has elapsed
LiveIteration(frame, io_ok) ==
    MeasureTransferred(TransferKeypointsRobust(frame),
                       is_keypoints_transferred
                          \/ Len(TransferKeypointsRobust(frame).out) > 0,
                       io_ok)

StoreMeasurements(m) ==
    /\ ApplyCheckQc(m)
    /\ current_measurements' = m.records
    /\ UNCHANGED <<current_side, refVars, qc_call, trackVars, loopVars,
                   sessionVars>>

\* an iteration within transfer_interval of the last transfer: the keypoints
\* of the last transfer are measured again
LiveIterationNoTransfer(io_ok) ==
    StoreMeasurements(MeasurePairs(transferred_keypoints,
                                   is_keypoints_transferred, io_ok))

-----------------------------------------------------------------------------
(* What the frames of the live specification show *)

\* the longest annotation of the live specification
LiveKeypoints == 4

\* max_loc of the match that lies d off keypoint kp
LocationAt(kp, d, ref_size, frame_size) ==
    LET win == DirectWindows(kp[1], kp[2], ref_size, frame_size)
    IN <<kp[1] + d[1] - win.search_x1 - (win.ref_x2 - win.ref_x1) \div 2,
         kp[2] + d[2] - win.search_y1 - (win.ref_y2 - win.ref_y1) \div 2>>

\* frames of the dimensions of the reference: every keypoint matched 8 px
\* right and 6 px up above the threshold; every keypoint at the threshold;
\* the first keypoint matched in place and the others 30 px right and 40 px
\* down; template matching failing
LiveDirectFrames(kps, ref_size, frame_size) ==
    LET n == Len(kps)
        at(i, c, d) ==
            MatchObservation(FALSE, c, LocationAt(kps[i], d, ref_size, frame_size))
    IN {[observed |-> [i \in 1..n |-> at(i, direct_match_threshold + 1, <<8, -6>>)]],
        [observed |-> [i \in 1..n |-> at(i, direct_match_threshold, <<8, -6>>)]],
        [observed |-> [i \in 1..n |->
                          IF i = 1 THEN at(i, direct_match_threshold + 1, <<0, 0>>)
                          ELSE at(i, direct_match_threshold + 1, <<30, 40>>)]],
        [observed |-> [i \in 1..n |-> MatchObservation(TRUE, 0, <<0, 0>>)]]}

\* frames of other dimensions: no descriptors; no match; matches enough for
\* a homography that shifts the garment 8 px right and 6 px up.  Template
\* matching finds no keypoint, every keypoint, every keypoint but the first
\* or every keypoint but the last.
LiveFeatureFrames(kps, ref_size, frame_size) ==
    LET n == Len(kps)
        found == ShownAt(kps, ref_size, frame_size)
        locals == {[template_points |-> AllSentinel(n)],
                   [template_points |-> found],
                   [template_points |->
                       [i \in 1..n |-> IF i = 1 THEN Sentinel ELSE found[i]]],
                   [template_points |->
                       [i \in 1..n |-> IF i = n THEN Sentinel ELSE found[i]]]}
    IN {[desc |-> FALSE, matches |-> <<>>, H |-> NoHomography,
         mls_raises |-> FALSE, template_points |-> found,
         corner_points |-> AllSentinel(n), fallback_points |-> b] :
           b \in {AllSentinel(n), found}}
       \cup {[desc |-> TRUE, matches |-> MatchList(f[1]), H |-> f[2],
              mls_raises |-> FALSE, template_points |-> l.template_points,
              corner_points |-> AllSentinel(n),
              fallback_points |-> AllSentinel(n)] :
                f \in {<<0, NoHomography>>,
                       <<homography_min_matches, ScaleAndShift(<<8, -6>>)>>},
                l \in locals}

\* frames of other dimensions for the loop: no descriptors; no match; a
\* degenerate homography and MLS in its place; no homography and MLS failing;
\* a homography that shifts the garment 8 px right and 6 px up
LoopFeatureFrames(kps, ref_size, frame_size) ==
    LET n == Len(kps)
        found == ShownAt(kps, ref_size, frame_size)
    IN {[desc |-> FALSE, matches |-> <<>>, H |-> NoHomography,
         mls_raises |-> FALSE, template_points |-> found,
         corner_points |-> AllSentinel(n), fallback_points |-> AllSentinel(n)],
        [desc |-> TRUE, matches |-> MatchList(0), H |-> NoHomography,
         mls_raises |-> FALSE, template_points |-> AllSentinel(n),
         corner_points |-> AllSentinel(n), fallback_points |-> AllSentinel(n)],
        [desc |-> TRUE, matches |-> MatchList(homography_min_matches),
         H |-> Diagonal(10, 1, 10),
         mls_raises |-> FALSE, template_points |-> found,
         corner_points |-> AllSentinel(n), fallback_points |-> AllSentinel(n)],
        [desc |-> TRUE, matches |-> MatchList(homography_min_matches),
         H |-> NoHomography,
         mls_raises |-> TRUE, template_points |-> found,
         corner_points |-> AllSentinel(n), fallback_points |-> found],
        [desc |-> TRUE, matches |-> MatchList(homography_min_matches),
         H |-> ScaleAndShift(<<8, -6>>),
         mls_raises |-> FALSE, template_points |-> found,
         corner_points |-> AllSentinel(n), fallback_points |-> AllSentinel(n)]}

LoopFrames(kps, ref_size, frame_size) ==
    IF ref_size = NoImage \/ Len(kps) = 0 THEN {[observed |-> <<>>]}
    ELSE IF frame_size = ref_size THEN LiveDirectFrames(kps, ref_size, frame_size)
    ELSE LoopFeatureFrames(kps, ref_size, frame_size)

LiveFrames(kps, ref_size, frame_size) ==
    IF ref_size = NoImage \/ Len(kps) = 0 THEN {[observed |-> <<>>]}
    ELSE IF frame_size = ref_size THEN LiveDirectFrames(kps, ref_size, frame_size)
    ELSE LiveFeatureFrames(kps, ref_size, frame_size)

-----------------------------------------------------------------------------
(* The live specification: a session on the front side, both sides          *)
(* annotated, calibrated or not, its camera delivering frames of the        *)
(* dimensions of the reference images or of other dimensions.               *)

LiveInit ==
    /\ current_side = "front"
    /\ \E n \in 1..LiveKeypoints : keypoints = AnnotationOf(n)
    /\ back_keypoints = AnnotationOf(BackKeypoints)
    /\ placement_box = <<>>
    /\ reference_image = ReferenceSize
    /\ back_reference_image = ReferenceSize
    /\ live_size \in {ReferenceSize, ScaledLiveSize}
    /\ is_calibrated \in BOOLEAN
    /\ pixels_per_cm = IF is_calibrated THEN 2 ELSE 0
    /\ target_distances = EmptyDict
    /\ back_target_distances = EmptyDict
    /\ qc_results = EmptyDict
    /\ annotation_file = FrontAnnotationData(keypoints, target_distances, placement_box)
    /\ back_annotation_file = BackAnnotationData(back_keypoints, back_target_distances)
    /\ qc_call = NoCall
    /\ last_valid_keypoints = <<>>
    /\ stabilization_frames = 0
    /\ keypoint_stabilized = FALSE
    /\ transferred_keypoints = <<>>
    /\ is_keypoints_transferred = FALSE
    /\ last_detected_scale = initial_scale
    /\ stab_call = NoCall
    /\ current_measurements = <<>>
    /\ InLiveLoop

LiveNext ==
    \/ \E frame \in LiveFrames(CurrentKeypoints, CurrentReference, live_size),
          io_ok \in BOOLEAN :
          LiveIteration(frame, io_ok)
    \/ \E io_ok \in BOOLEAN : LiveIterationNoTransfer(io_ok)
    \/ ForgetCall
    \/ SwitchToBackSide
    \/ SwitchToFrontSide

SpecLive == LiveInit /\ [][LiveNext]_vars

-----------------------------------------------------------------------------
(* The control flow of the live loop: frame acquisition, pause, the keys    *)
(* read by cv2.waitKey at the end of an iteration.                          *)

\* the longest annotation of the loop specification
LoopKeypoints == 2

\* the keys of the model: none, quit, pause, switch side
Keys == {"none", "q", "p", "b"}

\* a key goes down while the loop runs
PressKey(key) ==
    /\ loop = "running"
    /\ pressed_key = "none"
    /\ key # "none"
    /\ pressed_key' = key
    /\ UNCHANGED <<current_side, refVars, qcVars, trackVars, liveVars,
                   loop, paused, has_last_frame, stop_missed, last_iteration,
                   qc_calls, sessionVars>>

\* lines 2838-2875: the iteration ends at a continue statement, before the
\* keys are read: no frame was grabbed, or the loop is paused and never
\* stored a frame
IterationSkipped(grabbed) ==
    IF ~paused THEN ~grabbed ELSE ~has_last_frame

SkippedIteration(grabbed) ==
    /\ loop = "running"
    /\ IterationSkipped(grabbed)
    /\ stop_missed' = (stop_missed \/ pressed_key = "q")
    /\ last_iteration' = "skipped"
    /\ qc_calls' = 0
    /\ UNCHANGED <<current_side, refVars, qcVars, trackVars, liveVars,
                   loop, paused, pressed_key, has_last_frame, sessionVars>>

\* an iteration that does not call transfer_keypoints_robust leaves the
\* tracking state and the transferred keypoints as they are
KeptTransfer ==
    [mode |-> "none", error |-> "none", new_keypoints |-> <<>>,
     last |-> last_valid_keypoints, frames |-> stabilization_frames,
     stabilized |-> keypoint_stabilized, scale |-> last_detected_scale,
     out |-> transferred_keypoints]

IterationTransferWhilePaused(frame, due) ==
    IF due THEN TransferKeypointsRobust(frame) ELSE KeptTransfer

\* lines 2885-2894: the transfer runs when the loop is not paused and
\* transfer_interval has elapsed (due)
IterationTransfer(frame, due) ==
    IF ~paused /\ due THEN TransferKeypointsRobust(frame) ELSE KeptTransfer

\* lines 3129-3140: the side the B key switches to, and whether the switch
\* succeeds
OtherSide == IF current_side = "front" THEN "back" ELSE "front"

CanSwitch ==
    IF current_side = "front"
    THEN Len(back_keypoints) > 0 /\ back_reference_image # NoImage
    ELSE Len(keypoints) > 0 /\ reference_image # NoImage

\* the component failures of an iteration: an error inside the feature
\* path, a matching error of direct placement, a new target that could not be
\* written to the annotation file
IterationFailures(frame, ran, t, m, io_ok) ==
    {f \in {"feature_transfer"} : ran /\ t.mode = "feature" /\ t.error # "none"}
    \cup {f \in {"direct_placement"} :
             /\ ran
             /\ t.mode = "direct"
             /\ \E i \in DOMAIN frame.observed : frame.observed[i].raises}
    \cup {f \in {"persist_baseline"} :
             /\ ~io_ok
             /\ m.front # target_distances \/ m.back # back_target_distances}

CaughtFailuresButSave == {"feature_transfer", "direct_placement"}

\* the failures an except clause inside the iteration catches: that of
\* transfer_keypoints_robust (line 1376), that of direct placement around
\* each keypoint (line 1213), those of save_annotation and
\* save_back_annotation (lines 417, 444)
CaughtFailures == {"feature_transfer", "direct_placement", "persist_baseline"}

\* the assignments of an iteration that transferred t, measured m and read
\* key; a failure no handler catches leaves the loop as an exception
StoreLoopIteration(t, transferred, m, key, failures) ==
    /\ ApplyCheckQc(m)
    /\ current_measurements' = m.records
    /\ last_detected_scale' = t.scale
    /\ IF key = "b" /\ CanSwitch
       THEN ResetOnSwitch(OtherSide)
       ELSE /\ current_side' = current_side
            /\ last_valid_keypoints' = t.last
            /\ stabilization_frames' = t.frames
            /\ keypoint_stabilized' = t.stabilized
            /\ transferred_keypoints' = t.out
            /\ is_keypoints_transferred' = transferred
    /\ loop' = IF ~(failures \subseteq CaughtFailures) THEN "raised"
               ELSE IF key = "q" THEN "returned" ELSE "running"
    /\ paused' = IF key = "p" THEN ~paused ELSE paused
    /\ pressed_key' = "none"
    /\ has_last_frame' = (has_last_frame \/ ~paused)
    /\ qc_calls' = m.calls
    /\ last_iteration' = IF key = "b" /\ CanSwitch THEN "switched"
                         ELSE IF paused THEN "paused" ELSE "live"
    /\ UNCHANGED <<refVars, qc_call, stab_call, stop_missed, sessionVars>>

FailedLoopIteration(frame, ran, t, transferred, m, io_ok) ==
    StoreLoopIteration(t, transferred, m, pressed_key,
                       IterationFailures(frame, ran, t, m, io_ok))

MeasureLoopIteration(frame, ran, t, transferred, io_ok) ==
    FailedLoopIteration(frame, ran, t, transferred,
                        MeasurePairs(t.out, transferred, io_ok), io_ok)

\* lines 2837-3165: an iteration that reaches cv2.waitKey
LoopIteration(frame, due, io_ok) ==
    /\ loop = "running"
    /\ ~IterationSkipped(TRUE)
    /\ (~paused /\ due) => stabilization_frames < MaxStableFrames
    /\ MeasureLoopIteration(frame, ~paused /\ due,
                            IterationTransfer(frame, due),
                            is_keypoints_transferred
                               \/ (~paused /\ due
                                     /\ Len(IterationTransfer(frame, due).out) > 0),
                            io_ok)

-----------------------------------------------------------------------------
(* The loop specification: a session on the front side, both sides          *)
(* annotated, from the start of transfer_keypoints_to_live.                 *)

LoopInit ==
    /\ current_side = "front"
    /\ \E n \in 1..LoopKeypoints : keypoints = AnnotationOf(n)
    /\ back_keypoints = AnnotationOf(BackKeypoints)
    /\ placement_box = <<>>
    /\ reference_image = ReferenceSize
    /\ back_reference_image = ReferenceSize
    /\ live_size \in {ReferenceSize, ScaledLiveSize}
    /\ is_calibrated \in BOOLEAN
    /\ pixels_per_cm = IF is_calibrated THEN 2 ELSE 0
    /\ target_distances = EmptyDict
    /\ back_target_distances = EmptyDict
    /\ qc_results = EmptyDict
    /\ annotation_file = FrontAnnotationData(keypoints, target_distances, placement_box)
    /\ back_annotation_file = BackAnnotationData(back_keypoints, back_target_distances)
    /\ qc_call = NoCall
    /\ last_valid_keypoints = <<>>
    /\ stabilization_frames = 0
    /\ keypoint_stabilized = FALSE
    /\ transferred_keypoints = <<>>
    /\ is_keypoints_transferred = FALSE
    /\ last_detected_scale = initial_scale
    /\ stab_call = NoCall
    /\ current_measurements = <<>>
    /\ InLiveLoop

LoopNext ==
    \/ \E key \in Keys : PressKey(key)
    \/ \E grabbed \in BOOLEAN : SkippedIteration(grabbed)
    \/ \E frame \in LoopFrames(CurrentKeypoints, CurrentReference, live_size),
          due \in BOOLEAN, io_ok \in BOOLEAN :
          LoopIteration(frame, due, io_ok)

SpecLoop == LoopInit /\ [][LoopNext]_vars

-----------------------------------------------------------------------------
(* The entry points: run(), test_direct_measurement.py and                  *)
(* measurement_worker.py, from the camera's initialisation to their end.    *)

\* the longest annotation on disk in the session specification
SessionKeypoints == 2

EntryPoints == {"run", "test", "worker"}

\* Camera.close
CameraClose ==
    /\ uninit_calls' = uninit_calls + (IF hCamera > 0 THEN 1 ELSE 0)
    /\ hCamera' = 0
    /\ free_calls' = free_calls + (IF pFrameBuffer # 0 THEN 1 ELSE 0)
    /\ pFrameBuffer' = 0

\* initialize_camera: Camera.open succeeds (ok) or no camera is found
InitializeCamera(ok) ==
    /\ pc = "initialize_camera"
    /\ IF ok
       THEN hCamera' = 1 /\ pFrameBuffer' = 1 /\ pc' = "setup"
       ELSE UNCHANGED <<hCamera, pFrameBuffer>> /\ pc' = "exited"
    /\ UNCHANGED <<current_side, refVars, qcVars, trackVars, liveVars, loopVars,
                   entry_point, uninit_calls, free_calls, fileVars,
                   errVars, apiVars>>

\* load_calibration: the fields it leaves and what it returns
LoadCalibration ==
    IF calibration_file = NoFile
    THEN [pixels_per_cm |-> pixels_per_cm, is_calibrated |-> is_calibrated,
          ret |-> FALSE]
    ELSE [pixels_per_cm |-> calibration_file.pixels_per_cm,
          is_calibrated |-> calibration_file.is_calibrated,
          ret |-> calibration_file.is_calibrated]

PlacementBoxNotRead(file) == <<>>

\* annotation_data.get('placement_box', [])
PlacementBoxOf(file) ==
    IF "placement_box" \in DOMAIN file THEN file.placement_box ELSE <<>>

\* load_annotation: the fields it leaves and what it returns
LoadAnnotation ==
    IF annotation_file = NoFile
    THEN [keypoints |-> keypoints, targets |-> target_distances,
          box |-> placement_box, image |-> reference_image, ret |-> FALSE]
    ELSE [keypoints |-> annotation_file.keypoints,
          targets |-> LoadedTargets(annotation_file.target_distances),
          box |-> PlacementBoxOf(annotation_file),
          image |-> IF Len(annotation_file.keypoints) > 0
                       /\ reference_image_file # NoImage
                    THEN reference_image_file ELSE reference_image,
          ret |-> Len(annotation_file.keypoints) > 0
                     /\ reference_image_file # NoImage]

\* load_back_annotation
LoadBackAnnotation ==
    IF back_annotation_file = NoFile
    THEN [keypoints |-> back_keypoints, targets |-> back_target_distances,
          image |-> back_reference_image, ret |-> FALSE]
    ELSE [keypoints |-> back_annotation_file.keypoints,
          targets |-> LoadedTargets(back_annotation_file.target_distances),
          image |-> IF Len(back_annotation_file.keypoints) > 0
                       /\ back_reference_image_file # NoImage
                    THEN back_reference_image_file ELSE back_reference_image,
          ret |-> Len(back_annotation_file.keypoints) > 0
                     /\ back_reference_image_file # NoImage]

\* what load_back_annotation leaves when it is not called
BackAsLoaded ==
    [keypoints |-> back_keypoints, targets |-> back_target_distances,
     image |-> back_reference_image, ret |-> FALSE]

\* lines 2812-2836: transfer_keypoints_to_live up to its loop
EnterLoop ==
    /\ pc' = "loop"
    /\ loop' = "running"
    /\ keypoint_stabilized' = FALSE
    /\ last_valid_keypoints' = <<>>
    /\ stabilization_frames' = 0
    /\ last_detected_scale' = initial_scale

\* the assignments of an entry point between the camera's initialisation and
\* the loop; next is "loop", "setup" (the menu is shown again), "return"
\* (run() returns through its finally clause) or "exit"
StoreSetup(side, cal, front, back, next) ==
    /\ pc = "setup"
    /\ current_side' = side
    /\ pixels_per_cm' = cal.pixels_per_cm
    /\ is_calibrated' = cal.is_calibrated
    /\ keypoints' = front.keypoints
    /\ target_distances' = front.targets
    /\ placement_box' = front.box
    /\ reference_image' = front.image
    /\ back_keypoints' = back.keypoints
    /\ back_target_distances' = back.targets
    /\ back_reference_image' = back.image
    /\ IF next = "loop"
       THEN EnterLoop
       ELSE /\ pc' = IF next = "setup" THEN "setup" ELSE "exited"
            /\ UNCHANGED <<loop, keypoint_stabilized, last_valid_keypoints,
                           stabilization_frames, last_detected_scale>>
    /\ IF next = "return" THEN CameraClose ELSE UNCHANGED cameraVars
    /\ UNCHANGED <<live_size, qc_results, annotation_file, back_annotation_file,
                   qc_call, transferred_keypoints, is_keypoints_transferred,
                   stab_call, liveVars, paused, pressed_key, has_last_frame,
                   stop_missed, last_iteration, qc_calls, entry_point, fileVars,
                   errVars, apiVars>>

\* what the setup leaves of a file it does not load
CalibrationAsIs ==
    [pixels_per_cm |-> pixels_per_cm, is_calibrated |-> is_calibrated, ret |-> FALSE]

FrontAsLoaded ==
    [keypoints |-> keypoints, targets |-> target_distances,
     box |-> placement_box, image |-> reference_image, ret |-> FALSE]

\* run(), lines 3187-3198, with show_startup_menu: choice 1 loads the
\* calibration and both annotations, choice 9 leaves
RunMenu(choice) ==
    /\ entry_point = "run"
    /\ IF choice = "1"
       THEN StoreSetup(current_side, LoadCalibration, LoadAnnotation,
                       LoadBackAnnotation,
                       IF LoadCalibration.ret
                          /\ (LoadAnnotation.ret \/ LoadBackAnnotation.ret)
                       THEN "loop" ELSE "setup")
       ELSE StoreSetup(current_side, CalibrationAsIs, FrontAsLoaded,
                       BackAsLoaded, "return")

\* test_direct_measurement.py, lines 29-57
TestSetup ==
    /\ entry_point = "test"
    /\ StoreSetup(current_side, LoadCalibration, LoadAnnotation, BackAsLoaded,
                  IF LoadAnnotation.ret THEN "loop" ELSE "exit")

\* measurement_worker.py, lines 35-94; side is the side of the configuration
\* file, annotation_file and reference_image_file are the files its paths name.
\* Without an annotation file the worker exits before load_annotation; a
\* missing reference image only makes load_annotation fail.
WorkerSetup(side) ==
    /\ entry_point = "worker"
    /\ IF annotation_file = NoFile
       THEN StoreSetup(side, LoadCalibration, FrontAsLoaded, BackAsLoaded, "exit")
       ELSE StoreSetup(side, LoadCalibration, LoadAnnotation, BackAsLoaded,
                       IF LoadAnnotation.ret THEN "loop" ELSE "exit")

\* an error leaves the loop: KeyboardInterrupt (test_direct_measurement.py
\* line 58) or any exception outside the guarded transfer
LoopRaises ==
    /\ pc = "loop"
    /\ loop = "running"
    /\ loop' = "raised"
    /\ UNCHANGED <<current_side, refVars, qcVars, trackVars, liveVars,
                   paused, pressed_key, has_last_frame, stop_missed,
                   last_iteration, qc_calls, sessionVars>>

\* after the loop: the finally clauses of run() and of the test script close
\* the camera; the worker ends (or calls sys.exit(1)) with no call of close
Finish ==
    /\ pc = "loop"
    /\ loop \in {"returned", "raised"}
    /\ pc' = "exited"
    /\ IF entry_point \in {"run", "test"} THEN CameraClose
       ELSE UNCHANGED cameraVars
    /\ UNCHANGED <<current_side, refVars, qcVars, trackVars, liveVars, loopVars,
                   entry_point, fileVars, errVars, apiVars>>

\* the annotation files the session may find
AnnotationsOnDisk ==
    {NoFile} \cup {FrontAnnotationData(AnnotationOf(n), EmptyDict, <<>>) :
                      n \in 0..SessionKeypoints}

BackAnnotationsOnDisk ==
    {NoFile, BackAnnotationData(AnnotationOf(BackKeypoints), EmptyDict)}

SessionInit ==
    /\ current_side = "front"
    /\ keypoints = <<>>
    /\ back_keypoints = <<>>
    /\ placement_box = <<>>
    /\ reference_image = NoImage
    /\ back_reference_image = NoImage
    /\ live_size = ReferenceSize
    /\ is_calibrated = FALSE
    /\ pixels_per_cm = 0
    /\ target_distances = EmptyDict
    /\ back_target_distances = EmptyDict
    /\ qc_results = EmptyDict
    /\ annotation_file \in AnnotationsOnDisk
    /\ back_annotation_file \in BackAnnotationsOnDisk
    /\ qc_call = NoCall
    /\ last_valid_keypoints = <<>>
    /\ stabilization_frames = 0
    /\ keypoint_stabilized = FALSE
    /\ transferred_keypoints = <<>>
    /\ is_keypoints_transferred = FALSE
    /\ last_detected_scale = initial_scale
    /\ stab_call = NoCall
    /\ current_measurements = <<>>
    /\ loop = "not_started"
    /\ paused = FALSE
    /\ pressed_key = "none"
    /\ has_last_frame = FALSE
    /\ stop_missed = FALSE
    /\ last_iteration = "none"
    /\ qc_calls = 0
    /\ entry_point \in EntryPoints
    /\ pc = "initialize_camera"
    /\ hCamera = 0
    /\ pFrameBuffer = 0
    /\ uninit_calls = 0
    /\ free_calls = 0
    /\ reference_image_file \in {NoImage, ReferenceSize}
    /\ back_reference_image_file \in {NoImage, ReferenceSize}
    /\ calibration_file \in {NoFile, CalibrationData(2, TRUE)}
    /\ annot_call = NoCall
    /\ NoErrors
    /\ ApiIdle

SessionNext ==
    \/ \E ok \in BOOLEAN : InitializeCamera(ok)
    \/ \E choice \in {"1", "9"} : RunMenu(choice)
    \/ TestSetup
    \/ \E side \in Sides : WorkerSetup(side)
    \/ \E key \in Keys : PressKey(key)
    \/ \E grabbed \in BOOLEAN : SkippedIteration(grabbed)
    \/ \E frame \in LoopFrames(CurrentKeypoints, CurrentReference, live_size),
          due \in BOOLEAN, io_ok \in BOOLEAN :
          LoopIteration(frame, due, io_ok)
    \/ LoopRaises
    \/ Finish

SpecSession == SessionInit /\ [][SessionNext]_vars

-----------------------------------------------------------------------------
(* Saving and loading the annotations: save_annotation,                     *)
(* save_back_annotation, load_annotation, load_back_annotation.             *)

\* the longest annotation of the annotation specification
AnnotKeypoints == 2

\* a placement guide box [x1, y1, x2, y2]
SomeBox == <<50, 40, 350, 260>>

\* what is in memory of the side when it is saved
SavedCall(side, kps, targets, box) ==
    [op |-> "save", side |-> side, keypoints |-> kps, targets |-> targets,
     box |-> box]

\* save_annotation: json.dump of the record, then the reference image; an
\* error (io_ok false) is caught before anything is written
SaveAnnotation(io_ok) ==
    /\ IF io_ok
       THEN /\ annotation_file' = FrontAnnotationData(keypoints, target_distances,
                                                      placement_box)
            /\ reference_image_file' = IF reference_image # NoImage
                                       THEN reference_image
                                       ELSE reference_image_file
            /\ annot_call' = SavedCall("front", keypoints, target_distances,
                                       placement_box)
       ELSE UNCHANGED <<annotation_file, reference_image_file, annot_call>>
    /\ UNCHANGED <<current_side, refVars, target_distances, back_target_distances,
                   qc_results, back_annotation_file, qc_call, trackVars, liveVars,
                   loopVars, entry_point, pc, cameraVars, errVars, apiVars,
                   back_reference_image_file, calibration_file>>

\* save_back_annotation
SaveBackAnnotation(io_ok) ==
    /\ IF io_ok
       THEN /\ back_annotation_file' = BackAnnotationData(back_keypoints,
                                                          back_target_distances)
            /\ back_reference_image_file' = IF back_reference_image # NoImage
                                            THEN back_reference_image
                                            ELSE back_reference_image_file
            /\ annot_call' = SavedCall("back", back_keypoints,
                                       back_target_distances, placement_box)
       ELSE UNCHANGED <<back_annotation_file, back_reference_image_file, annot_call>>
    /\ UNCHANGED <<current_side, refVars, target_distances, back_target_distances,
                   qc_results, annotation_file, qc_call, trackVars, liveVars,
                   loopVars, entry_point, pc, cameraVars, errVars, apiVars,
                   reference_image_file, calibration_file>>

\* the call record after a load of side: a load of the side last saved
\* completes the round trip
LoadedCall(side) ==
    IF annot_call # NoCall /\ annot_call.side = side
    THEN [annot_call EXCEPT !.op = "load"]
    ELSE NoCall

\* the assignments of load_annotation
StoreLoadedAnnotation(a) ==
    /\ keypoints' = a.keypoints
    /\ target_distances' = a.targets
    /\ placement_box' = a.box
    /\ reference_image' = a.image
    /\ annot_call' = LoadedCall("front")
    /\ UNCHANGED <<current_side, back_keypoints, back_reference_image, live_size,
                   is_calibrated, pixels_per_cm, back_target_distances,
                   qc_results, annotation_file, back_annotation_file, qc_call,
                   trackVars, liveVars, loopVars, entry_point, pc, cameraVars, errVars, apiVars,
                   reference_image_file, back_reference_image_file,
                   calibration_file>>

LoadAnnotationFile == StoreLoadedAnnotation(LoadAnnotation)

\* the assignments of load_back_annotation
StoreLoadedBackAnnotation(a) ==
    /\ back_keypoints' = a.keypoints
    /\ back_target_distances' = a.targets
    /\ back_reference_image' = a.image
    /\ annot_call' = LoadedCall("back")
    /\ UNCHANGED <<current_side, keypoints, placement_box, reference_image,
                   live_size, is_calibrated, pixels_per_cm, target_distances,
                   qc_results, annotation_file, back_annotation_file, qc_call,
                   trackVars, liveVars, loopVars, entry_point, pc, cameraVars, errVars, apiVars,
                   reference_image_file, back_reference_image_file,
                   calibration_file>>

LoadBackAnnotationFile == StoreLoadedBackAnnotation(LoadBackAnnotation)

\* another process starts: the fields of __init__, the files as they are
NewSession ==
    /\ keypoints' = <<>>
    /\ back_keypoints' = <<>>
    /\ placement_box' = <<>>
    /\ reference_image' = NoImage
    /\ back_reference_image' = NoImage
    /\ target_distances' = EmptyDict
    /\ back_target_distances' = EmptyDict
    /\ annot_call' = IF annot_call # NoCall /\ annot_call.op = "save"
                     THEN annot_call ELSE NoCall
    /\ UNCHANGED <<current_side, live_size, is_calibrated, pixels_per_cm,
                   qc_results, annotation_file, back_annotation_file, qc_call,
                   trackVars, liveVars, loopVars, entry_point, pc, cameraVars, errVars, apiVars,
                   reference_image_file, back_reference_image_file,
                   calibration_file>>

AnnotInit ==
    /\ current_side = "front"
    /\ \E n \in 0..AnnotKeypoints : keypoints = AnnotationOf(n)
    /\ \E n \in 0..AnnotKeypoints : back_keypoints = AnnotationOf(n)
    /\ placement_box \in {<<>>, SomeBox}
    /\ reference_image = IF Len(keypoints) > 0 THEN ReferenceSize ELSE NoImage
    /\ back_reference_image = IF Len(back_keypoints) > 0 THEN ReferenceSize
                              ELSE NoImage
    /\ live_size = ReferenceSize
    /\ is_calibrated = TRUE
    /\ pixels_per_cm = 2
    /\ target_distances \in TargetDicts(Len(keypoints) \div 2)
    /\ back_target_distances \in TargetDicts(Len(back_keypoints) \div 2)
    /\ qc_results = EmptyDict
    /\ annotation_file = NoFile
    /\ back_annotation_file = NoFile
    /\ qc_call = NoCall
    /\ last_valid_keypoints = <<>>
    /\ stabilization_frames = 0
    /\ keypoint_stabilized = FALSE
    /\ transferred_keypoints = <<>>
    /\ is_keypoints_transferred = FALSE
    /\ last_detected_scale = initial_scale
    /\ stab_call = NoCall
    /\ current_measurements = <<>>
    /\ loop = "not_started"
    /\ paused = FALSE
    /\ pressed_key = "none"
    /\ has_last_frame = FALSE
    /\ stop_missed = FALSE
    /\ last_iteration = "none"
    /\ qc_calls = 0
    /\ entry_point = "run"
    /\ pc = "setup"
    /\ hCamera = 1
    /\ pFrameBuffer = 1
    /\ uninit_calls = 0
    /\ free_calls = 0
    /\ reference_image_file = NoImage
    /\ back_reference_image_file = NoImage
    /\ calibration_file = CalibrationData(pixels_per_cm, is_calibrated)
    /\ annot_call = NoCall
    /\ NoErrors
    /\ ApiIdle

AnnotNext ==
    \/ \E io_ok \in BOOLEAN : SaveAnnotation(io_ok)
    \/ \E io_ok \in BOOLEAN : SaveBackAnnotation(io_ok)
    \/ LoadAnnotationFile
    \/ LoadBackAnnotationFile
    \/ NewSession

SpecAnnot == AnnotInit /\ [][AnnotNext]_vars

-----------------------------------------------------------------------------
(* transfer_with_mls on its own: one annotated keypoint, matches whose      *)
(* sources lie on the keypoint or one pixel beside it.                      *)

\* the longest list of matches of the MLS specification
MlsMatches == 5

MlsSources == {Point(100, 100), Point(101, 100)}
MlsDestinations == {Point(110, 94), Point(150, 150)}

MlsMatchLists ==
    UNION {[1..k -> {Match(src, dst) : src \in MlsSources, dst \in MlsDestinations}] :
              k \in 1..MlsMatches}

\* a call of transfer_with_mls with the matches; raises is an error inside it
CallTransferWithMls(matches, raises) ==
    /\ stab_call = NoCall
    /\ stab_call' = [kind |-> "mls", matches |-> matches, raises |-> raises,
                     out |-> TransferWithMls(CurrentKeypoints, matches, raises)]
    /\ UNCHANGED <<current_side, refVars, qcVars, last_valid_keypoints,
                   stabilization_frames, keypoint_stabilized,
                   transferred_keypoints, is_keypoints_transferred,
                   last_detected_scale, liveVars, loopVars, sessionVars>>

MlsInit ==
    /\ current_side = "front"
    /\ keypoints = AnnotationOf(1)
    /\ back_keypoints = <<>>
    /\ placement_box = <<>>
    /\ reference_image = ReferenceSize
    /\ back_reference_image = NoImage
    /\ live_size = ScaledLiveSize
    /\ is_calibrated = FALSE
    /\ pixels_per_cm = 0
    /\ target_distances = EmptyDict
    /\ back_target_distances = EmptyDict
    /\ qc_results = EmptyDict
    /\ annotation_file = FrontAnnotationData(keypoints, target_distances, placement_box)
    /\ back_annotation_file = NoFile
    /\ qc_call = NoCall
    /\ last_valid_keypoints = <<>>
    /\ stabilization_frames = 0
    /\ keypoint_stabilized = FALSE
    /\ transferred_keypoints = <<>>
    /\ is_keypoints_transferred = FALSE
    /\ last_detected_scale = initial_scale
    /\ stab_call = NoCall
    /\ current_measurements = <<>>
    /\ InLiveLoop

MlsNext ==
    \/ \E matches \in MlsMatchLists, raises \in BOOLEAN :
          CallTransferWithMls(matches, raises)
    \/ ForgetCall

SpecMls == MlsInit /\ [][MlsNext]_vars

-----------------------------------------------------------------------------
(* The except branch of transfer_keypoints_robust: rate-limited logging.    *)

\* self._error_limit
error_limit == 3

\* str(e)[:50]
error_key_length == 50

\* a message is raised at most this many times in the error specification
MaxErrors == 4

\* a message of len characters: head repeated over the first
\* error_key_length characters, tail after them
Message(head, len, tail) ==
    [i \in 1..len |-> IF i <= error_key_length THEN head ELSE tail]

\* two long messages that differ after the 50th character, a long message
\* that differs from the first character, a short message
ErrorMessages ==
    {Message("a", 60, "x"), Message("a", 60, "y"), Message("b", 60, "x"),
     Message("c", 10, "c")}

\* error_key = str(e)[:50]
ErrorKey(message) == SubSeq(message, 1, Min(Len(message), error_key_length))

\* self._error_counts.get(error_key, 0)
CountOf(d, k) == IF k \in DOMAIN d THEN d[k] ELSE 0

ErrorPrintedBelowLimit(count) == count < error_limit

\* if self._error_counts[error_key] <= self._error_limit: print(...)
ErrorPrinted(count) == count <= error_limit

\* lines 1376-1385: transfer_keypoints_robust catches an error with the
\* message; the template fallback it then returns changes no field
TransferError(message) ==
    /\ CountOf(error_seen, message) < MaxErrors
    /\ error_counts' = DictPut(error_counts, ErrorKey(message),
                               CountOf(error_counts, ErrorKey(message)) + 1)
    /\ error_seen' = DictPut(error_seen, message, CountOf(error_seen, message) + 1)
    /\ error_log' =
          IF ErrorPrinted(CountOf(error_counts, ErrorKey(message)) + 1)
          THEN DictPut(error_log, message, CountOf(error_log, message) + 1)
          ELSE error_log
    /\ UNCHANGED <<current_side, refVars, qcVars, trackVars, liveVars, loopVars,
                   entry_point, pc, cameraVars, fileVars, apiVars>>

ErrInit ==
    /\ current_side = "front"
    /\ keypoints = AnnotationOf(2)
    /\ back_keypoints = <<>>
    /\ placement_box = <<>>
    /\ reference_image = ReferenceSize
    /\ back_reference_image = NoImage
    /\ live_size = ScaledLiveSize
    /\ is_calibrated = FALSE
    /\ pixels_per_cm = 0
    /\ target_distances = EmptyDict
    /\ back_target_distances = EmptyDict
    /\ qc_results = EmptyDict
    /\ annotation_file = FrontAnnotationData(keypoints, target_distances, placement_box)
    /\ back_annotation_file = NoFile
    /\ qc_call = NoCall
    /\ last_valid_keypoints = <<>>
    /\ stabilization_frames = 0
    /\ keypoint_stabilized = FALSE
    /\ transferred_keypoints = <<>>
    /\ is_keypoints_transferred = FALSE
    /\ last_detected_scale = initial_scale
    /\ stab_call = NoCall
    /\ current_measurements = <<>>
    /\ InLiveLoop

ErrNext == \E message \in ErrorMessages : TransferError(message)

SpecErr == ErrInit /\ [][ErrNext]_vars

-----------------------------------------------------------------------------
(* The fusion rule of transfer_keypoints_robust, called on its own.         *)

\* candidates of one keypoint: none, a position, and positions 5, 25 and
\* 50 px from it
FusionPoints ==
    {Sentinel, Point(100, 100), Point(103, 104), Point(115, 120), Point(130, 140)}

\* what detect_corners_robust returns: nothing, or a point or the sentinel for
\* each of the first corner_keypoints_count keypoints
FusionCorners ==
    {<<>>,
     [j \in 1..corner_keypoints_count |-> Sentinel],
     [j \in 1..corner_keypoints_count |-> Point(140, 90)]}

\* keypoint indices (from 1) on either side of corner_keypoints_count
FusionIndices == {1, corner_keypoints_count, corner_keypoints_count + 1}

\* one pass of the fusion loop for keypoint i
CallFusedPoint(i, feat_pt, temp_pt, corner_points, n_matches) ==
    /\ stab_call = NoCall
    /\ stab_call' = [kind |-> "fuse", i |-> i, feat_pt |-> feat_pt,
                     temp_pt |-> temp_pt, corner_points |-> corner_points,
                     n_matches |-> n_matches,
                     out |-> FusedPoint(i, feat_pt, temp_pt, corner_points,
                                        n_matches)]
    /\ UNCHANGED <<current_side, refVars, qcVars, last_valid_keypoints,
                   stabilization_frames, keypoint_stabilized,
                   transferred_keypoints, is_keypoints_transferred,
                   last_detected_scale, liveVars, loopVars, sessionVars>>

FuseInit == MlsInit

FuseNext ==
    \/ \E i \in FusionIndices, feat_pt \in FusionPoints, temp_pt \in FusionPoints,
          corner_points \in FusionCorners, n_matches \in MatchCounts :
          CallFusedPoint(i, feat_pt, temp_pt, corner_points, n_matches)
    \/ ForgetCall

SpecFuse == FuseInit /\ [][FuseNext]_vars

-----------------------------------------------------------------------------
(* template_match_corners: the template matcher of the corner keypoints.    *)

\* self.corner_template_size
corner_template_size == 150

\* self.corner_matching_threshold = 0.6, in hundredths
corner_matching_threshold == 60

\* if x2 - x1 < 20 or y2 - y1 < 20
corner_min_template == 20

\* search_multiplier = 2.5 * scale_factor, in tenths
corner_search_multiplier == 25

\* the template patch (x1..x2, y1..y2 of the reference) and the search
\* region (sx1..sx2, sy1..sy2 of the frame) of one keypoint; scale_factor in
\* hundredths
CornerWindows(kp, scale_factor, ref_size, frame_size) ==
    LET template_size == (corner_template_size * scale_factor) \div 100
        half_size == template_size \div 2
        search_half_size ==
            (template_size * corner_search_multiplier * scale_factor) \div 1000
        estimated_x == (kp[1] * scale_factor) \div 100
        estimated_y == (kp[2] * scale_factor) \div 100
        x1 == Max(0, kp[1] - half_size)
        y1 == Max(0, kp[2] - half_size)
        x2 == Min(ref_size[1], kp[1] + half_size)
        y2 == Min(ref_size[2], kp[2] + half_size)
    IN [tw |-> x2 - x1, th |-> y2 - y1,
        sx1 |-> Max(0, estimated_x - search_half_size),
        sy1 |-> Max(0, estimated_y - search_half_size),
        sx2 |-> Min(frame_size[1], estimated_x + search_half_size),
        sy2 |-> Min(frame_size[2], estimated_y + search_half_size)]

\* the best of TM_CCOEFF_NORMED and TM_CCORR_NORMED, tried in this order:
\* the later method wins only with a greater value
BestMatch(m) == IF m.ccorr.max_val > m.ccoeff.max_val THEN m.ccorr ELSE m.ccoeff

\* the point the loop of template_match_corners appends for keypoint kp:
\* match_x and match_y both start from sx1
CornerPoint(kp, m, scale_factor, ref_size, frame_size) ==
    LET win == CornerWindows(kp, scale_factor, ref_size, frame_size)
    IN IF win.tw < corner_min_template \/ win.th < corner_min_template THEN Sentinel
       ELSE IF win.sx2 - win.sx1 < win.tw \/ win.sy2 - win.sy1 < win.th THEN Sentinel
       ELSE IF m.raises THEN Sentinel
       ELSE IF BestMatch(m).max_val > corner_matching_threshold
       THEN <<win.sx1 + BestMatch(m).max_loc[1] + win.tw \div 2,
              win.sx1 + BestMatch(m).max_loc[2] + win.th \div 2>>
       ELSE Sentinel

\* template_match_corners: a point or the sentinel for each of the first
\* corner_keypoints_count keypoints
TemplateMatchCorners(kps, observed, scale_factor, ref_size, frame_size) ==
    [i \in 1..Min(corner_keypoints_count, Len(kps)) |->
        CornerPoint(kps[i], observed[i], scale_factor, ref_size, frame_size)]

\* images of a camera resolution at which a search region does not reach
\* the left and the top edge of the frame at once
CornerReferenceSize == <<2000, 1500>>
CornerLiveSize == <<2200, 1650>>

\* one keypoint far from the left edge, one far from the top edge
CornerAnnotation == <<Point(1000, 500), Point(300, 1200)>>

\* scale factors estimate_scale_change hands over, in hundredths
CornerScales == {100, 110}

\* what the two matchTemplate calls give for keypoint kp: an error, or a best
\* place for each method at a corner of the result array
CornerObservations(kp, scale_factor, ref_size, frame_size) ==
    LET win == CornerWindows(kp, scale_factor, ref_size, frame_size)
        place(at) == <<at[1] * (win.sx2 - win.sx1 - win.tw),
                       at[2] * (win.sy2 - win.sy1 - win.th)>>
    IN {[raises |-> TRUE, ccoeff |-> MatchObservation(TRUE, 0, <<0, 0>>),
         ccorr |-> MatchObservation(TRUE, 0, <<0, 0>>)]}
       \cup {[raises |-> FALSE,
              ccoeff |-> MatchObservation(FALSE, v, place(at)),
              ccorr |-> MatchObservation(FALSE, w, place(<<0, 1>>))] :
                v \in {corner_matching_threshold, corner_matching_threshold + 1},
                at \in {<<0, 0>>, <<1, 0>>, <<1, 1>>},
                w \in {corner_matching_threshold - 5, 90}}

\* a call of template_match_corners on a frame
CallTemplateMatchCorners(scale_factor, observed) ==
    /\ stab_call = NoCall
    /\ stab_call' = [kind |-> "corners", scale_factor |-> scale_factor,
                     observed |-> observed,
                     out |-> TemplateMatchCorners(CurrentKeypoints, observed,
                                                  scale_factor, CurrentReference,
                                                  live_size)]
    /\ UNCHANGED <<current_side, refVars, qcVars, last_valid_keypoints,
                   stabilization_frames, keypoint_stabilized,
                   transferred_keypoints, is_keypoints_transferred,
                   last_detected_scale, liveVars, loopVars, sessionVars>>

CornerInit ==
    /\ current_side = "front"
    /\ keypoints = CornerAnnotation
    /\ back_keypoints = <<>>
    /\ placement_box = <<>>
    /\ reference_image = CornerReferenceSize
    /\ back_reference_image = NoImage
    /\ live_size = CornerLiveSize
    /\ is_calibrated = FALSE
    /\ pixels_per_cm = 0
    /\ target_distances = EmptyDict
    /\ back_target_distances = EmptyDict
    /\ qc_results = EmptyDict
    /\ annotation_file = FrontAnnotationData(keypoints, target_distances, placement_box)
    /\ back_annotation_file = NoFile
    /\ qc_call = NoCall
    /\ last_valid_keypoints = <<>>
    /\ stabilization_frames = 0
    /\ keypoint_stabilized = FALSE
    /\ transferred_keypoints = <<>>
    /\ is_keypoints_transferred = FALSE
    /\ last_detected_scale = initial_scale
    /\ stab_call = NoCall
    /\ current_measurements = <<>>
    /\ InLiveLoop

CornerNext ==
    \/ \E scale_factor \in CornerScales :
          \E o1 \in CornerObservations(keypoints[1], scale_factor,
                                       reference_image, live_size),
             o2 \in CornerObservations(keypoints[2], scale_factor,
                                       reference_image, live_size) :
             CallTemplateMatchCorners(scale_factor, <<o1, o2>>)
    \/ ForgetCall

SpecCorner == CornerInit /\ [][CornerNext]_vars

-----------------------------------------------------------------------------
(* api_server.py: start_measurement, its waiter thread run_measurement and  *)
(* stop_measurement, which Flask runs in threads of one process.            *)

\* the dictionary a handler binds measurement_status to
StatusDict(running, status, error) ==
    [running |-> running, status |-> status, error |-> error]

\* the API server is another program than the measurement loop: its
\* handlers leave the loop's state alone
LoopUntouched ==
    UNCHANGED <<current_side, refVars, qcVars, trackVars, liveVars, loopVars,
                entry_point, pc, cameraVars, errVars, fileVars>>

\* psutil.Process(pid).kill() on the process the handle refers to; for a
\* process that is gone psutil raises and the handler goes on
KillHandle(procs, handle) ==
    IF handle # NoProcess /\ procs[handle] = "alive"
    THEN [procs EXCEPT ![handle] = "killed"]
    ELSE procs

\* lines 236-248: a start request that passed validation stops what the
\* status says is running, and goes on to write the configuration
StartStopsExisting ==
    /\ start_pc = "idle"
    /\ \E n \in Workers : threads[n].pc = "unborn"
    /\ IF measurement_status.running
       THEN /\ processes' = KillHandle(processes, measurement_process)
            /\ measurement_status' = [measurement_status EXCEPT !.running = FALSE]
       ELSE UNCHANGED <<processes, measurement_status>>
    /\ start_pc' = "configure"
    /\ stopped_worker' = NoProcess
    /\ UNCHANGED <<measurement_process, threads>>
    /\ LoopUntouched

\* lines 555-604: the status is rebound to a running one and the waiter
\* thread is started; lines 614-620 when writing the configuration raised
StartSpawnsThread(raises) ==
    /\ start_pc = "configure"
    /\ start_pc' = "idle"
    /\ IF raises
       THEN /\ measurement_status' = [measurement_status EXCEPT !.running = FALSE]
            /\ UNCHANGED threads
       ELSE LET n == CHOOSE k \in Workers :
                        /\ threads[k].pc = "unborn"
                        /\ \A j \in Workers : threads[j].pc = "unborn" => k <= j
            IN /\ measurement_status' = StatusDict(TRUE, "starting", "None")
               /\ threads' = [threads EXCEPT ![n].pc = "popen"]
    /\ UNCHANGED <<measurement_process, processes, stopped_worker>>
    /\ LoopUntouched

\* the except and the else branch of run_measurement write into the
\* dictionary the global name is bound to when they run
FailedStatus(error) ==
    [measurement_status EXCEPT !.status = "failed", !.error = error]

\* lines 570-582: subprocess.Popen binds the global handle to the new worker
ThreadPopen(n, raises) ==
    /\ threads[n].pc = "popen"
    /\ IF raises
       THEN /\ measurement_status' = FailedStatus("popen")
            /\ threads' = [threads EXCEPT ![n].pc = "finally"]
            /\ UNCHANGED <<measurement_process, processes>>
       ELSE /\ measurement_process' = n
            /\ processes' = [processes EXCEPT ![n] = "alive"]
            /\ threads' = [threads EXCEPT ![n].pc = "mark"]
            /\ UNCHANGED measurement_status
    /\ UNCHANGED <<start_pc, stopped_worker>>
    /\ LoopUntouched

\* line 584
ThreadMarksRunning(n) ==
    /\ threads[n].pc = "mark"
    /\ measurement_status' = [measurement_status EXCEPT !.status = "running"]
    /\ threads' = [threads EXCEPT ![n].pc = "wait"]
    /\ UNCHANGED <<measurement_process, processes, start_pc, stopped_worker>>
    /\ LoopUntouched

\* line 587: measurement_process.wait() reads the global handle, which is
\* None after the finally of another thread, and blocks on the process it found
ThreadCallsWait(n) ==
    /\ threads[n].pc = "wait"
    /\ IF measurement_process = NoProcess
       THEN /\ measurement_status' = FailedStatus("NoneType")
            /\ threads' = [threads EXCEPT ![n].pc = "finally"]
       ELSE /\ threads' = [threads EXCEPT ![n].pc = "waiting",
                                          ![n].waits_for = measurement_process]
            /\ UNCHANGED measurement_status
    /\ UNCHANGED <<measurement_process, processes, start_pc, stopped_worker>>
    /\ LoopUntouched

\* lines 589-593: wait() returned; returncode is read from the global handle
ThreadReadsReturncode(n) ==
    /\ threads[n].pc = "waiting"
    /\ processes[threads[n].waits_for] # "alive"
    /\ measurement_status' =
          IF measurement_process = NoProcess THEN FailedStatus("NoneType")
          ELSE IF processes[measurement_process] = "exited_0"
          THEN [measurement_status EXCEPT !.status = "completed"]
          ELSE FailedStatus("exit code")
    /\ threads' = [threads EXCEPT ![n].pc = "finally"]
    /\ UNCHANGED <<measurement_process, processes, start_pc, stopped_worker>>
    /\ LoopUntouched

\* lines 598-600
ThreadFinally(n) ==
    /\ threads[n].pc = "finally"
    /\ measurement_status' = [measurement_status EXCEPT !.running = FALSE]
    /\ measurement_process' = NoProcess
    /\ threads' = [threads EXCEPT ![n].pc = "done"]
    /\ UNCHANGED <<processes, start_pc, stopped_worker>>
    /\ LoopUntouched

\* the worker ends by itself: the operator quit (0) or the worker failed (1)
WorkerExits(n, code) ==
    /\ processes[n] = "alive"
    /\ processes' = [processes EXCEPT ![n] = code]
    /\ UNCHANGED <<measurement_process, measurement_status, threads, start_pc,
                   stopped_worker>>
    /\ LoopUntouched

\* lines 622-662: stop_measurement on a status that says running
StopMeasurement ==
    /\ measurement_status.running
    /\ processes' = KillHandle(processes, measurement_process)
    /\ measurement_status' = StatusDict(FALSE, "stopped", "None")
    /\ stopped_worker' = IF processes' # processes THEN measurement_process
                                                     ELSE NoProcess
    /\ UNCHANGED <<measurement_process, threads, start_pc>>
    /\ LoopUntouched

ApiInit ==
    /\ current_side = "front"
    /\ keypoints = AnnotationOf(2)
    /\ back_keypoints = <<>>
    /\ placement_box = <<>>
    /\ reference_image = ReferenceSize
    /\ back_reference_image = NoImage
    /\ live_size = ScaledLiveSize
    /\ is_calibrated = FALSE
    /\ pixels_per_cm = 0
    /\ target_distances = EmptyDict
    /\ back_target_distances = EmptyDict
    /\ qc_results = EmptyDict
    /\ annotation_file = FrontAnnotationData(keypoints, target_distances, placement_box)
    /\ back_annotation_file = NoFile
    /\ qc_call = NoCall
    /\ last_valid_keypoints = <<>>
    /\ stabilization_frames = 0
    /\ keypoint_stabilized = FALSE
    /\ transferred_keypoints = <<>>
    /\ is_keypoints_transferred = FALSE
    /\ last_detected_scale = initial_scale
    /\ stab_call = NoCall
    /\ current_measurements = <<>>
    /\ InLiveLoop

ApiNext ==
    \/ StartStopsExisting
    \/ \E raises \in BOOLEAN : StartSpawnsThread(raises)
    \/ \E n \in Workers, raises \in BOOLEAN : ThreadPopen(n, raises)
    \/ \E n \in Workers : ThreadMarksRunning(n)
    \/ \E n \in Workers : ThreadCallsWait(n)
    \/ \E n \in Workers : ThreadReadsReturncode(n)
    \/ \E n \in Workers : ThreadFinally(n)
    \/ \E n \in Workers, code \in {"exited_0", "exited_1"} :
          WorkerExits(n, code)
    \/ StopMeasurement

SpecApi == ApiInit /\ [][ApiNext]_vars

-----------------------------------------------------------------------------
(* Properties of check_qc (SpecQC) *)

QcCalled == qc_call.kind = "check_qc"

TargetsOf(side) == IF side = "front" THEN target_distances
                   ELSE back_target_distances

FileOf(side) == IF side = "front" THEN annotation_file ELSE back_annotation_file

\* C1: check_qc on a pair with no target returns PASS, and afterwards the active
\* side's targets hold exactly the measured value for that pair, the other pairs
\* being as before; the annotation file of the active side holds the same
\* targets whenever it could be written.
C1_BaselineStoredAndPass ==
    (QcCalled /\ qc_call.pair_num \notin DOMAIN qc_call.before) =>
        /\ qc_call.ret = TRUE
        /\ TargetsOf(qc_call.side) =
              DictPut(qc_call.before, qc_call.pair_num, qc_call.measured)
        /\ qc_call.io_ok =>
              /\ FileOf(qc_call.side).kind = "annotation"
              /\ LoadedTargets(FileOf(qc_call.side).target_distances)
                    = TargetsOf(qc_call.side)

C1_Witness ==
    /\ QcCalled
    /\ qc_call.side = "back"
    /\ qc_call.pair_num \notin DOMAIN qc_call.before
    /\ DOMAIN qc_call.before # {}
    /\ qc_call.io_ok

\* C2: check_qc on a pair that has a target returns PASS exactly when
\* |measured - target| <= tolerance, records PASS or FAIL accordingly, and
\* leaves every target as it was; a deviation of 10 passes a tolerance of 100
\* and fails a tolerance of 5.
C2_PassIffWithinTolerance ==
    /\ (QcCalled /\ qc_call.pair_num \in DOMAIN qc_call.before) =>
          LET deviation == Abs(qc_call.measured - qc_call.before[qc_call.pair_num])
          IN /\ qc_call.ret = (deviation <= qc_tolerance_cm)
             /\ qc_results[qc_call.pair_num] =
                   IF deviation <= qc_tolerance_cm THEN "PASS" ELSE "FAIL"
             /\ TargetsOf(qc_call.side) = qc_call.before
    /\ QcWithin(210, 200, 100)
    /\ ~QcWithin(210, 200, 5)

\* a call whose deviation is exactly the tolerance, which passes
C2_Witness ==
    /\ QcCalled
    /\ qc_call.pair_num \in DOMAIN qc_call.before
    /\ Abs(qc_call.measured - qc_call.before[qc_call.pair_num]) = qc_tolerance_cm
    /\ qc_call.ret = TRUE

-----------------------------------------------------------------------------
(* Properties of the stabilizer (SpecStab) *)

StabCalled == stab_call.kind = "stabilize"

\* the call found remembered positions of the cardinality of the candidates
WasTracking ==
    /\ StabCalled
    /\ Len(stab_call.last) > 0
    /\ Len(stab_call.last) = Len(stab_call.new_keypoints)

CallIndices == 1..Len(stab_call.new_keypoints)

\* keypoint i alone jumped 50 px, every other candidate is the remembered position
IsolatedJump(i) ==
    /\ WasTracking
    /\ Len(stab_call.last) >= 3
    /\ ~IsInvalid(stab_call.new_keypoints[i])
    /\ Dist2(stab_call.new_keypoints[i], stab_call.last[i]) = 50 * 50
    /\ \A j \in CallIndices \ {i} : stab_call.new_keypoints[j] = stab_call.last[j]

\* C4 as stated: an isolated 50 px jump is rejected, the output and the
\* remembered position of the jumping keypoint stay at the old position.
C4_IsolatedJumpRejected ==
    StabCalled =>
        \A i \in CallIndices :
            IsolatedJump(i) =>
                /\ transferred_keypoints[i] = stab_call.last[i]
                /\ last_valid_keypoints[i] = stab_call.last[i]

\* C4 amended: an isolated 50 px jump is accepted (no other keypoint moved more
\* than 5 px, so check_coordinated_movement assumes real movement): the output
\* and the remembered position of the jumping keypoint become the candidate.
C4_IsolatedJumpAccepted ==
    StabCalled =>
        \A i \in CallIndices :
            IsolatedJump(i) =>
                /\ transferred_keypoints[i] = stab_call.new_keypoints[i]
                /\ last_valid_keypoints[i] = stab_call.new_keypoints[i]

C4_Witness ==
    /\ StabCalled
    /\ \E i \in CallIndices :
          /\ IsolatedJump(i)
          /\ last_valid_keypoints[i] # stab_call.last[i]

\* every candidate is valid and lies the same 50 px vector from its remembered position
CoordinatedJump ==
    /\ WasTracking
    /\ \A i \in CallIndices :
          /\ ~IsInvalid(stab_call.new_keypoints[i])
          /\ Dist2(stab_call.new_keypoints[i], stab_call.last[i]) = 50 * 50
          /\ stab_call.new_keypoints[i][1] - stab_call.last[i][1]
                = stab_call.new_keypoints[1][1] - stab_call.last[1][1]
          /\ stab_call.new_keypoints[i][2] - stab_call.last[i][2]
                = stab_call.new_keypoints[1][2] - stab_call.last[1][2]

\* C5: a coordinated 50 px jump of all keypoints is accepted, for any number of
\* keypoints: the output and the remembered positions become the candidates.
C5_CoordinatedJumpAccepted ==
    CoordinatedJump =>
        /\ transferred_keypoints = stab_call.new_keypoints
        /\ last_valid_keypoints = stab_call.new_keypoints

C5_Witness ==
    /\ CoordinatedJump
    /\ Len(stab_call.new_keypoints) >= 3
    /\ last_valid_keypoints = stab_call.new_keypoints

AllValid(points) == \A i \in 1..Len(points) : ~IsInvalid(points[i])

\* some candidate of the call was the sentinel, or was rejected as jitter
SomeInvalidOrJitter ==
    /\ StabCalled
    /\ \E i \in CallIndices :
          \/ IsInvalid(stab_call.new_keypoints[i])
          \/ /\ WasTracking
             /\ PointOutcome(stab_call.new_keypoints, stab_call.last, i) = "jitter"

\* a frame of valid candidates identical to the frame before it
IdenticalValidFrame ==
    /\ WasTracking
    /\ AllValid(stab_call.new_keypoints)
    /\ stab_call.new_keypoints = stab_call.last

\* the first frame after a reset, all valid
FirstValidFrame ==
    /\ StabCalled
    /\ stab_call.last = <<>>
    /\ AllValid(stab_call.new_keypoints)

\* C6 as stated: from reset, every frame of identical valid candidates, the
\* first one included, increments the counter, so that isStabilized is true
\* after 2 such frames; a frame with a sentinel or a rejected candidate resets
\* the counter and isStabilized.
C6_CounterFromFirstFrame ==
    /\ (FirstValidFrame \/ IdenticalValidFrame) =>
          stabilization_frames = stab_call.frames + 1
    /\ (IdenticalValidFrame /\ stabilization_frames >= stable_frames_needed) =>
          keypoint_stabilized
    /\ SomeInvalidOrJitter =>
          (stabilization_frames = 0 /\ ~keypoint_stabilized)

\* C6 amended: the first frame after a reset only initialises the remembered
\* positions and leaves the counter at 0; every later frame of identical valid
\* candidates increments the counter, and isStabilized is true exactly when the
\* counter has reached 2, that is after 3 such frames from reset; a frame with
\* a sentinel or a rejected candidate resets the counter and isStabilized.
C6_CounterAfterFirstFrame ==
    /\ (StabCalled /\ stab_call.last = <<>>) =>
          /\ stabilization_frames = 0
          /\ ~keypoint_stabilized
          /\ last_valid_keypoints = stab_call.new_keypoints
    /\ IdenticalValidFrame =>
          /\ stab_call.frames < stabilization_frames
          /\ stabilization_frames = stab_call.frames + 1
    /\ keypoint_stabilized = (stabilization_frames >= stable_frames_needed)
    /\ SomeInvalidOrJitter =>
          (stabilization_frames = 0 /\ ~keypoint_stabilized)

\* the third identical valid frame: the counter goes from 1 to 2
C6_Witness ==
    /\ IdenticalValidFrame
    /\ stab_call.frames = 1
    /\ ~stab_call.stabilized
    /\ stabilization_frames = 2
    /\ keypoint_stabilized

\* C10: a stabilizer call whose candidates differ in number from the
\* remembered positions leaves the candidates as the remembered positions, the
\* counter at 0 and isStabilized false; after every call the remembered list
\* is as long as the candidate list.
C10_ReinitOnCardinalityChange ==
    StabCalled =>
        /\ Len(last_valid_keypoints) = Len(stab_call.new_keypoints)
        /\ Len(stab_call.last) # Len(stab_call.new_keypoints) =>
              /\ last_valid_keypoints = stab_call.new_keypoints
              /\ stabilization_frames = 0
              /\ ~keypoint_stabilized

\* the first frame after a switch to a back side of another length
C10_Witness ==
    /\ StabCalled
    /\ current_side = "back"
    /\ Len(keypoints) # Len(back_keypoints)
    /\ Len(stab_call.last) # Len(stab_call.new_keypoints)
    /\ last_valid_keypoints = stab_call.new_keypoints

-----------------------------------------------------------------------------
(* Properties of direct placement (SpecDirect) *)

DirectCalled == stab_call.kind = "stabilize" /\ stab_call.via = "direct"

\* template matching of keypoint i ran and found a correlation of at most 0.5
LowCorrelation(i) ==
    /\ ~stab_call.raises[i]
    /\ stab_call.max_val[i] <= direct_match_threshold

\* C8 as stated: in direct placement a keypoint whose correlation is at most
\* 0.5 is handed back at its raw annotation coordinate, on every frame and
\* whatever was handed back for it on earlier frames.
C8_LowCorrelationReturnsRaw ==
    DirectCalled =>
        \A i \in CallIndices :
            LowCorrelation(i) => transferred_keypoints[i] = CurrentKeypoints[i]

\* C8 amended: the candidate the refinement produces for a keypoint whose
\* correlation is at most 0.5 is its raw annotation coordinate; the position
\* handed back is that candidate after stabilization, which is the raw
\* coordinate unless the stabilizer rejects the move from the remembered
\* position as jitter, and then it is the remembered position.
C8_LowCorrelationCandidateRaw ==
    DirectCalled =>
        \A i \in CallIndices :
            LowCorrelation(i) =>
                /\ stab_call.new_keypoints[i] = CurrentKeypoints[i]
                /\ IF WasTracking
                      /\ PointOutcome(stab_call.new_keypoints, stab_call.last, i) = "jitter"
                   THEN transferred_keypoints[i] = stab_call.last[i]
                   ELSE transferred_keypoints[i] = CurrentKeypoints[i]

\* a keypoint of low correlation handed back at an earlier refined position
C8_Witness ==
    /\ DirectCalled
    /\ \E i \in CallIndices :
          /\ LowCorrelation(i)
          /\ stab_call.new_keypoints[i] = CurrentKeypoints[i]
          /\ transferred_keypoints[i] # CurrentKeypoints[i]
          /\ transferred_keypoints[i] = stab_call.last[i]

-----------------------------------------------------------------------------
(* Properties of the feature path (SpecFeat) *)

FeatureCalled == stab_call.kind \in {"stabilize", "error"} /\ stab_call.via = "feature"

\* 0.1 < |det| < 10.0
DeterminantInRange(H) == 100 < Abs(Det3(H)) /\ Abs(Det3(H)) < 10000

\* cv2.findHomography gave a matrix whose determinant is out of range
DegenerateHomography ==
    /\ FeatureCalled
    /\ stab_call.H # NoHomography
    /\ ~DeterminantInRange(stab_call.H)

\* C7: a homography with |det| <= 0.1 or |det| >= 10.0 produces no feature
\* position: transfer_with_homography returns no points for it and the
\* feature candidates of the frame are what MLS returned or are all sentinel;
\* the candidates are those of a homography only when its determinant is in
\* range.
C7_DegenerateHomographyNotUsed ==
    /\ DegenerateHomography =>
          /\ stab_call.homography_points = <<>>
          /\ stab_call.method # "homography"
          /\ \/ stab_call.feature_points = stab_call.mls_points
             \/ stab_call.feature_points = AllSentinel(Len(CurrentKeypoints))
    /\ (FeatureCalled /\ stab_call.method = "homography") =>
          /\ stab_call.H # NoHomography
          /\ DeterminantInRange(stab_call.H)
          /\ stab_call.feature_points =
                [i \in 1..Len(CurrentKeypoints) |->
                    PerspectiveTransform(stab_call.H, CurrentKeypoints[i])]

\* a homography of determinant exactly 10.0 is rejected and the candidates
\* that reach the stabilizer are those of MLS
C7_Witness ==
    /\ DegenerateHomography
    /\ Abs(Det3(stab_call.H)) = 10000
    /\ stab_call.method = "mls_fallback"
    /\ stab_call.mls_points # <<>>
    /\ stab_call.feature_points = stab_call.mls_points
    /\ stab_call.kind = "stabilize"
    /\ transferred_keypoints = stab_call.mls_points

-----------------------------------------------------------------------------
(* Properties of the live loop (SpecLive) *)

\* the keypoints of a transfer are there and the last iteration measured them
LiveMeasured == is_keypoints_transferred /\ Len(transferred_keypoints) > 0

\* the last iteration ran the stabilizer on the candidates of its frame
LiveCalled ==
    /\ LiveMeasured
    /\ stab_call.kind = "stabilize"
    /\ stab_call.via = "live"

\* the keypoints (1-based) of the pair a record is numbered after
Endpoints(r) == {2 * (r.pair_num - 1) + 1, 2 * (r.pair_num - 1) + 2}

\* keypoint e is the sentinel in the transferred list: the live loop measures
\* from the annotation coordinate, scaled to the frame, in its place
UsedAnnotation(e) == IsInvalid(transferred_keypoints[e])

\* the position keypoint e is measured at
UsedPoint(e) ==
    IF UsedAnnotation(e)
    THEN FallbackPoint(CurrentKeypoints[e], CurrentReference, live_size)
    ELSE transferred_keypoints[e]

\* the stabilizer handed back the last-known position of keypoint e instead
\* of the candidate of the frame, a sentinel or a rejected point
StabilizerSubstituted(e) ==
    /\ ~IsInvalid(transferred_keypoints[e])
    /\ stab_call.new_keypoints[e] # transferred_keypoints[e]

\* C3: for a transferred list of n keypoints the iteration appends exactly
\* floor(n/2) records; record k carries pair index k and the distance between
\* keypoints 2(k-1) and 2(k-1)+1 (0-based), so that no index lies outside
\* 1..floor(n/2), none appears twice and the last keypoint of an odd list is
\* in no pair.
C3_PairsOfTheLiveLoop ==
    LiveMeasured =>
        LET n == Len(transferred_keypoints)
            m == Len(current_measurements)
        IN /\ m = n \div 2
           /\ \A k \in 1..m :
                 /\ current_measurements[k].pair_num = k
                 /\ current_measurements[k].pair_num \in 1..(n \div 2)
                 /\ current_measurements[k].pixel_distance =
                       PixelDistance(UsedPoint(2 * (k - 1) + 1),
                                     UsedPoint(2 * (k - 1) + 2))
           /\ \A j, k \in 1..m :
                 j # k => current_measurements[j].pair_num #
                          current_measurements[k].pair_num

\* an odd list of three tracked keypoints in a calibrated session: one
\* record, the third keypoint in no pair
C3_Witness ==
    /\ LiveCalled
    /\ is_calibrated
    /\ Len(transferred_keypoints) = 3
    /\ ~IsInvalid(transferred_keypoints[3])
    /\ Len(current_measurements) = 1
    /\ current_measurements[1].pair_num = 1
    /\ current_measurements[1].real_distance > 0

\* C9 as stated: a record's is_fallback is true iff an endpoint of its pair
\* used a substituted position, the scaled annotation coordinate or the
\* last-known position of the stabilizer.
C9_FallbackIffSubstituted ==
    LiveCalled =>
        \A k \in 1..Len(current_measurements) :
            LET r == current_measurements[k]
            IN r.is_fallback <=>
                  \E e \in Endpoints(r) :
                      UsedAnnotation(e) \/ StabilizerSubstituted(e)

\* C9 amended: a record's is_fallback is true iff an endpoint of its pair is
\* the sentinel in the transferred list, for which the live loop measures
\* from the scaled annotation coordinate; the last-known position of the
\* stabilizer does not set it.
C9_FallbackIffAnnotationUsed ==
    LiveMeasured =>
        \A k \in 1..Len(current_measurements) :
            LET r == current_measurements[k]
                e1 == 2 * (r.pair_num - 1) + 1
                e2 == 2 * (r.pair_num - 1) + 2
            IN /\ Endpoints(r) \subseteq 1..Len(transferred_keypoints)
               /\ r.is_fallback <=> (UsedAnnotation(e1) \/ UsedAnnotation(e2))
               /\ r.pixel_distance = PixelDistance(UsedPoint(e1), UsedPoint(e2))
               /\ (LiveCalled /\ ~UsedAnnotation(e1) /\ ~UsedAnnotation(e2))
                     => ~r.is_fallback

\* one iteration, two pairs: the first measured from an annotation coordinate
\* and flagged, the second from last-known positions of the stabilizer and
\* not flagged
C9_Witness ==
    /\ LiveCalled
    /\ Len(current_measurements) = 2
    /\ current_measurements[1].is_fallback
    /\ \E e \in Endpoints(current_measurements[1]) : UsedAnnotation(e)
    /\ ~current_measurements[2].is_fallback
    /\ \A e \in Endpoints(current_measurements[2]) : StabilizerSubstituted(e)

-----------------------------------------------------------------------------
(* Properties of the control flow of the live loop (SpecLoop) *)

\* C11: the loop ends within one iteration of the stop key going down: no
\* iteration begins and finishes with the stop key waiting and the loop still
\* running, be the loop live, paused or without a frame.
C11_StopWithinOneIteration ==
    ~(loop = "running" /\ pressed_key = "q" /\ stop_missed)


\* the iteration that ends here ran paused, on the side of the iteration
\* before it, and does not switch the side
PausedIteration ==
    /\ paused
    /\ loop = "running"
    /\ last_iteration # "switched"
    /\ current_side' = current_side

\* C13: an iteration of the paused loop runs no transfer: it leaves the
\* transferred keypoints, the remembered positions, the stable-frame counter,
\* isStabilized and the target distances of both sides as they are, and the
\* measurement records it recomputes are those of the iteration before;
\* unpausing therefore resumes from the same tracking state.  The B key is
\* the exception: the iteration that reads it resets the tracking state, and
\* the iteration after it measures the other side.
C13_PausedIterationKeepsTracking ==
    [][PausedIteration =>
          /\ transferred_keypoints' = transferred_keypoints
          /\ is_keypoints_transferred' = is_keypoints_transferred
          /\ last_valid_keypoints' = last_valid_keypoints
          /\ stabilization_frames' = stabilization_frames
          /\ keypoint_stabilized' = keypoint_stabilized
          /\ target_distances' = target_distances
          /\ back_target_distances' = back_target_distances
          /\ current_measurements' = current_measurements]_vars

\* a paused iteration has recomputed the records of a tracked, stabilized
\* side whose targets exist
C13_Witness ==
    /\ last_iteration = "paused"
    /\ paused
    /\ keypoint_stabilized
    /\ stabilization_frames >= stable_frames_needed
    /\ Len(current_measurements) > 0
    /\ 1 \in DOMAIN target_distances

\* the last iteration measured the side the session is on
IterationMeasured == loop # "raised" /\ last_iteration \in {"live", "paused"}

\* C14: no recoverable failure of a frame interrupts the loop: whatever the
\* frame brings (no features, too few matches, a degenerate homography, a
\* template below the threshold, an error inside the feature path, a matching
\* error of direct placement, a target that cannot be saved), the loop is not
\* left by an exception, a keypoint that is not tracked is the sentinel, and
\* the iteration measures every pair, from the annotation where tracking
\* failed.
C14_FailuresDoNotInterrupt ==
    /\ loop # "raised"
    /\ IterationMeasured =>
          /\ Len(transferred_keypoints) \in {0, Len(CurrentKeypoints)}
          /\ \A i \in DOMAIN transferred_keypoints :
                IsInvalid(transferred_keypoints[i])
                   => transferred_keypoints[i] = Sentinel
          /\ (is_keypoints_transferred /\ Len(transferred_keypoints) > 0)
                => Len(current_measurements) = Len(transferred_keypoints) \div 2

\* the feature path failed on every keypoint and the new targets, taken
\* from the annotation's positions, could not be saved: the loop runs on
C14_Witness ==
    /\ loop = "running"
    /\ last_iteration = "live"
    /\ live_size # CurrentReference
    /\ Len(transferred_keypoints) = 2
    /\ \A i \in DOMAIN transferred_keypoints : transferred_keypoints[i] = Sentinel
    /\ Len(current_measurements) = 1
    /\ current_measurements[1].is_fallback
    /\ 1 \in DOMAIN target_distances
    /\ annotation_file = FrontAnnotationData(keypoints, EmptyDict, placement_box)

-----------------------------------------------------------------------------
(* Properties of the entry points (SpecSession) *)

\* the entry point is over and its loop had run and ended
LoopEnded == pc = "exited" /\ loop \in {"returned", "raised"}

\* C12: once the loop has ended, by the stop key or by an error leaving it,
\* the entry point has released the camera handle and the frame buffer
\* exactly once each, whichever entry point it is.
C12_CameraReleasedOnce ==
    LoopEnded =>
        /\ uninit_calls = 1 /\ hCamera = 0
        /\ free_calls = 1 /\ pFrameBuffer = 0

WorkerInLoop == entry_point = "worker" /\ pc = "loop" /\ loop = "running"

\* C16: whenever the headless worker is in the tracking loop, the side it
\* selected as active has a non-empty keypoint list and a loaded reference
\* image.
C16_WorkerSideIsLoaded ==
    WorkerInLoop =>
        /\ Len(CurrentKeypoints) > 0
        /\ CurrentReference # NoImage

-----------------------------------------------------------------------------
(* Properties of the annotation files (SpecAnnot) *)

\* the side was saved and then loaded
RoundTrip(side) ==
    annot_call # NoCall /\ annot_call.op = "load" /\ annot_call.side = side

-----------------------------------------------------------------------------
(* Properties of transfer_with_mls (SpecMls) *)

\* transfer_with_mls ran to its end on the matches
MlsCalled == stab_call # NoCall /\ stab_call.kind = "mls" /\ ~stab_call.raises

\* every match of the call is its first match
SingleMatch ==
    \A i \in DOMAIN stab_call.matches : stab_call.matches[i] = stab_call.matches[1]

\* the first match of the call has its source on keypoint i
SourceOn(i) == Dist2(CurrentKeypoints[i], stab_call.matches[1].src) = 0

\* C18 as stated: MLS given a single match whose source is at zero distance
\* from a reference keypoint returns, for that keypoint, the destination of
\* the match.
C18_SingleMatchGivesItsDestination ==
    (MlsCalled /\ Len(stab_call.matches) = 1) =>
        \A i \in DOMAIN CurrentKeypoints :
            SourceOn(i) =>
                /\ i \in DOMAIN stab_call.out
                /\ stab_call.out[i] = stab_call.matches[1].dst

\* C18, amended: MLS given four or more matches that are all the same match,
\* whose source is at zero distance from a reference keypoint, returns, for
\* that keypoint, the destination of the match.
C18_RepeatedMatchGivesItsDestination ==
    (MlsCalled /\ Len(stab_call.matches) >= mls_min_matches /\ SingleMatch) =>
        \A i \in DOMAIN CurrentKeypoints :
            SourceOn(i) =>
                /\ i \in DOMAIN stab_call.out
                /\ stab_call.out[i] = stab_call.matches[1].dst

\* four copies of a match on the keypoint gave its destination
C18_Witness ==
    /\ MlsCalled
    /\ Len(stab_call.matches) = mls_min_matches
    /\ SingleMatch
    /\ SourceOn(1)
    /\ stab_call.out = <<stab_call.matches[1].dst>>

-----------------------------------------------------------------------------
(* Properties of the error log (SpecErr) *)

\* the messages raised so far that share the error key k
MessagesOf(k) == {m \in DOMAIN error_seen : ErrorKey(m) = k}

\* how often the messages of S were raised, and how often printed
RaisedOf(S) == SumOver(S, [m \in S |-> error_seen[m]])
PrintedOf(S) == SumOver(S, [m \in S |-> CountOf(error_log, m)])

\* C19 as stated: whatever errors are raised, a message is printed on its
\* first 3 occurrences and never after, whichever other messages were raised.
C19_EachMessageThrice ==
    \A m \in DOMAIN error_seen :
        CountOf(error_log, m) = Min(error_seen[m], error_limit)

\* C19, amended: messages count as identical when their first 50 characters
\* agree; the messages of one such group are printed on the group's first 3
\* occurrences and never after, whichever messages of other groups were
\* raised.
C19_EachKeyThrice ==
    \A k \in DOMAIN error_counts :
        /\ error_counts[k] = RaisedOf(MessagesOf(k))
        /\ PrintedOf(MessagesOf(k)) = Min(error_counts[k], error_limit)

\* a message was raised a fourth time and not printed, after which a message
\* of another group was printed
C19_Witness ==
    /\ Message("b", 60, "x") \in DOMAIN error_seen
    /\ error_seen[Message("b", 60, "x")] = MaxErrors
    /\ CountOf(error_log, Message("b", 60, "x")) = error_limit
    /\ CountOf(error_log, Message("c", 10, "c")) = 1


-----------------------------------------------------------------------------
(* Selection of the transfer method (SpecFeat) *)

\* the matches of the call were enough for the homography
HomographyTried ==
    /\ FeatureCalled
    /\ stab_call.n_matches >= homography_min_matches

\* at 20 matches or more: the homography when its determinant is in range,
\* MLS when it is rejected
SelectionAtTwenty ==
    HomographyTried =>
        /\ stab_call.method \in {"homography", "mls_fallback"}
        /\ (stab_call.H # NoHomography /\ DeterminantInRange(stab_call.H)) =>
              /\ stab_call.method = "homography"
              /\ stab_call.feature_points = stab_call.homography_points
        /\ (stab_call.H # NoHomography /\ ~DeterminantInRange(stab_call.H)) =>
              /\ stab_call.method = "mls_fallback"
              /\ stab_call.feature_points = stab_call.mls_points

\* MLS alone was chosen for a call with from_count matches or more and fewer
\* than 20
MlsBelowTwenty(from_count) ==
    (/\ FeatureCalled
     /\ stab_call.n_matches >= from_count
     /\ stab_call.n_matches < homography_min_matches) =>
        /\ stab_call.method = "mls"
        /\ stab_call.H = NoHomography
        /\ stab_call.homography_points = <<>>
        /\ stab_call.feature_points = stab_call.mls_points

\* C20 as stated: with 20 matches or more the homography is used, and MLS when
\* the homography is rejected as degenerate; with fewer than 20 matches MLS is
\* used at every count of 4 or more, from which MLS works.
C20_MlsFromFourMatches ==
    /\ SelectionAtTwenty
    /\ MlsBelowTwenty(mls_min_matches)

\* C20, amended: with 20 matches or more the homography is used, and MLS when
\* the homography is rejected as degenerate; with fewer than 20 matches MLS is
\* used at every count of 15 or more, from which the feature path transfers.
C20_MlsFromMinMatches ==
    /\ SelectionAtTwenty
    /\ MlsBelowTwenty(min_matches)

\* a call with 19 matches took the positions MLS computed
C20_Witness ==
    /\ FeatureCalled
    /\ stab_call.n_matches = homography_min_matches - 1
    /\ stab_call.method = "mls"
    /\ stab_call.mls_points # <<>>
    /\ stab_call.feature_points = stab_call.mls_points
    /\ stab_call.kind = "stabilize"


-----------------------------------------------------------------------------
(* Frames without descriptors (SpecFeat) *)

\* extract_features_fast gave no descriptors for the reference or the frame
NoDescriptorsCall == FeatureCalled /\ ~stab_call.desc

\* C21: a frame without descriptors is handled like a frame with zero
\* matches: every feature candidate is the sentinel, the keypoints are fused
\* from the template and corner candidates, the fused points go through the
\* stabilizer, and no error reaches the except branch, where it would be
\* counted and reported.
C21_NoDescriptorsLikeZeroMatches ==
    NoDescriptorsCall =>
        /\ stab_call.feature_points = AllSentinel(Len(CurrentKeypoints))
        /\ stab_call.error = "none"
        /\ stab_call.kind = "stabilize"
        /\ Len(stab_call.new_keypoints) = Len(CurrentKeypoints)


-----------------------------------------------------------------------------
(* Sentinel candidates in the Tracking state (SpecStab) *)

\* C22: in a call that found remembered positions, a keypoint whose
\* candidate is the sentinel is returned at the position remembered from the
\* previous frame, that position is a valid coordinate, and the remembered
\* position of the keypoint is left as it was; whatever frames came since the
\* last reset, a first frame with sentinels included.
C22_SentinelKeepsValidPosition ==
    WasTracking =>
        \A i \in CallIndices :
            IsInvalid(stab_call.new_keypoints[i]) =>
                /\ transferred_keypoints[i] = stab_call.last[i]
                /\ ~IsInvalid(transferred_keypoints[i])
                /\ last_valid_keypoints[i] = stab_call.last[i]


-----------------------------------------------------------------------------
(* Properties of the fusion rule (SpecFuse) *)

\* the fusion loop ran for a keypoint that has no corner candidate
RegularFusion ==
    /\ stab_call.kind = "fuse"
    /\ ~(/\ stab_call.i - 1 < corner_keypoints_count
         /\ stab_call.i - 1 < Len(stab_call.corner_points))

\* the match count of the call is at least min_matches
HealthyMatches == stab_call.n_matches >= min_matches

\* the average of the candidates in tenths, the feature candidate weighing
\* feature_weight and the template candidate the rest
WeightedAverage(feature_weight) ==
    <<(stab_call.feat_pt[1] * feature_weight
         + stab_call.temp_pt[1] * (10 - feature_weight)) \div 10,
      (stab_call.feat_pt[2] * feature_weight
         + stab_call.temp_pt[2] * (10 - feature_weight)) \div 10>>

\* the fused point of a regular keypoint, the candidates agreeing when their
\* squared distance is below agree_upto
FusionRule(agree_upto) ==
    RegularFusion =>
        LET feat_valid == ~IsInvalid(stab_call.feat_pt)
            temp_valid == ~IsInvalid(stab_call.temp_pt)
        IN /\ (feat_valid /\ temp_valid
                 /\ Dist2(stab_call.feat_pt, stab_call.temp_pt) < agree_upto) =>
                  stab_call.out = IF HealthyMatches
                                  THEN WeightedAverage(feature_weight_strong)
                                  ELSE WeightedAverage(feature_weight_weak)
           /\ (feat_valid /\ temp_valid
                 /\ Dist2(stab_call.feat_pt, stab_call.temp_pt) >= agree_upto) =>
                  stab_call.out = IF HealthyMatches THEN stab_call.feat_pt
                                  ELSE stab_call.temp_pt
           /\ (feat_valid /\ ~temp_valid) => stab_call.out = stab_call.feat_pt
           /\ (~feat_valid /\ temp_valid) => stab_call.out = stab_call.temp_pt
           /\ (~feat_valid /\ ~temp_valid) => stab_call.out = Sentinel

\* C23 as stated: valid feature and template candidates within 25 px (25 px
\* included) are averaged, with feature weight 0.7 at min_matches matches or
\* more and 0.4 below; further apart, the feature candidate is taken at
\* min_matches matches or more and the template candidate below; one valid
\* candidate is taken as it is; none gives the sentinel.
C23_FusionWithin25 == FusionRule(fusion_agreement * fusion_agreement + 1)

\* C23, amended: the candidates are averaged when they are less than 25 px
\* apart, and one of them is taken when they are 25 px or more apart.
C23_FusionBelow25 == FusionRule(fusion_agreement * fusion_agreement)

\* candidates exactly 25 px apart with matches enough: the feature candidate
\* is the fused point
C23_Witness ==
    /\ RegularFusion
    /\ HealthyMatches
    /\ ~IsInvalid(stab_call.feat_pt)
    /\ ~IsInvalid(stab_call.temp_pt)
    /\ Dist2(stab_call.feat_pt, stab_call.temp_pt)
          = fusion_agreement * fusion_agreement
    /\ stab_call.out = stab_call.feat_pt
    /\ stab_call.out # WeightedAverage(feature_weight_strong)


-----------------------------------------------------------------------------
(* The tracking state after a side switch (SpecLoop) *)

\* C24: after an iteration whose B key switched the active side, the whole
\* tracking state is reset: no remembered positions, the stable-frame counter
\* at 0, not stabilized, and last_detected_scale back at its initial 1.0.
C24_SwitchResetsTrackingState ==
    last_iteration = "switched" =>
        /\ last_valid_keypoints = <<>>
        /\ stabilization_frames = 0
        /\ ~keypoint_stabilized
        /\ last_detected_scale = initial_scale


-----------------------------------------------------------------------------
(* The reference model during tracking (SpecLive) *)

\* every target of the dictionary before is in after with the same distance
TargetsKept(before, after) ==
    \A k \in DOMAIN before : k \in DOMAIN after /\ after[k] = before[k]

\* the pairs of consecutive keypoints of the active side, numbered from 1
ActivePairs == 1..(Len(CurrentKeypoints) \div 2)

\* what a step of the live loop may do to the reference model
ReferenceStep ==
    /\ keypoints' = keypoints
    /\ back_keypoints' = back_keypoints
    /\ TargetsKept(target_distances, target_distances')
    /\ TargetsKept(back_target_distances, back_target_distances')
    /\ current_side = "front" =>
          /\ back_target_distances' = back_target_distances
          /\ DOMAIN target_distances' \ DOMAIN target_distances \subseteq ActivePairs
    /\ current_side = "back" =>
          /\ target_distances' = target_distances
          /\ DOMAIN back_target_distances' \ DOMAIN back_target_distances
                \subseteq ActivePairs

\* C25: during the tracking loop the keypoint lists of both sides never
\* change, a target distance that exists is never overwritten, the targets of
\* the inactive side never change, and the only change is a new target for a
\* pair of the active side that had none.
C25_ReferenceReadOnlyButBaselines == [][ReferenceStep]_vars

\* both sides got baselines, and a later measurement of a front pair differs
\* from its baseline, which is still there
C25_Witness ==
    /\ LiveCalled
    /\ current_side = "front"
    /\ DOMAIN target_distances = ActivePairs
    /\ back_target_distances # EmptyDict
    /\ \E j \in 1..Len(current_measurements) :
          /\ current_measurements[j].pair_num \in DOMAIN target_distances
          /\ current_measurements[j].real_distance
                # target_distances[current_measurements[j].pair_num]
          /\ current_measurements[j].real_distance > 0


-----------------------------------------------------------------------------
(* The live snapshot (SpecLive) *)

\* what save_live_measurements writes for the records of the last iteration
LiveSnapshot == SaveLiveMeasurements(current_measurements)

\* C26: the snapshot reports the tolerance check_qc applied, and for every
\* record written while calibrated the reported bounds are that tolerance
\* around the target of the pair and passed is true exactly when the measured
\* value lies within them.
C26_SnapshotUsesQcTolerance ==
    (LiveCalled /\ is_calibrated /\ current_measurements # <<>>) =>
        /\ LiveSnapshot.tolerance_cm = qc_tolerance_cm
        /\ \A j \in 1..Len(LiveSnapshot.measurements) :
              LET r == LiveSnapshot.measurements[j]
                  target == CurrentTargets[r.id]
              IN /\ r.tolerance_plus = qc_tolerance_cm
                 /\ r.tolerance_minus = qc_tolerance_cm
                 /\ r.min_valid = target - r.tolerance_minus
                 /\ r.max_valid = target + r.tolerance_plus
                 /\ r.qc_passed <=>
                       (r.min_valid <= r.actual_cm /\ r.actual_cm <= r.max_valid)


-----------------------------------------------------------------------------
(* Direct placement never gives the sentinel (SpecLive) *)

\* the last iteration called transfer_keypoints_robust
RobustCalled == stab_call.kind \in {"stabilize", "error"} /\ stab_call.via = "live"

\* C27: the direct path is taken exactly when the frame has the dimensions
\* of the reference; it then gives every annotated keypoint a position that
\* is not the sentinel, for the candidates and for what is returned, and what
\* is returned is the output of the stabilizer on the candidates.
C27_DirectNeverSentinel ==
    RobustCalled =>
        /\ (stab_call.mode = "direct") <=> (live_size = CurrentReference)
        /\ stab_call.mode = "direct" =>
              /\ stab_call.kind = "stabilize"
              /\ Len(stab_call.new_keypoints) = Len(CurrentKeypoints)
              /\ \A i \in 1..Len(stab_call.new_keypoints) :
                    ~IsInvalid(stab_call.new_keypoints[i])
              /\ Len(transferred_keypoints) = Len(CurrentKeypoints)
              /\ \A i \in 1..Len(transferred_keypoints) :
                    ~IsInvalid(transferred_keypoints[i])
              /\ transferred_keypoints = last_valid_keypoints

\* a direct frame on which the stabilizer kept a remembered position in
\* place of the candidate
C27_Witness ==
    /\ RobustCalled
    /\ stab_call.mode = "direct"
    /\ live_size = CurrentReference
    /\ Len(transferred_keypoints) >= 2
    /\ transferred_keypoints # stab_call.new_keypoints
    /\ \A i \in 1..Len(transferred_keypoints) : ~IsInvalid(transferred_keypoints[i])


-----------------------------------------------------------------------------
(* Properties of template_match_corners (SpecCorner) *)

CornersCalled == stab_call.kind = "corners"

\* the windows template_match_corners cut for keypoint i of the call
WindowsOf(i) ==
    CornerWindows(CurrentKeypoints[i], stab_call.scale_factor, CurrentReference,
                  live_size)

\* C28: every position template_match_corners returns that is not the
\* sentinel lies in the region of the frame searched for its keypoint, x in
\* sx1..sx2 and y in sy1..sy2, each being the origin of the region on its axis
\* plus the offset of the best match plus half the extent of the template.
C28_CornerMatchInsideWindow ==
    CornersCalled =>
        \A i \in 1..Len(stab_call.out) :
            ~IsInvalid(stab_call.out[i]) =>
                /\ WindowsOf(i).sx1 <= stab_call.out[i][1]
                /\ stab_call.out[i][1] <= WindowsOf(i).sx2
                /\ WindowsOf(i).sy1 <= stab_call.out[i][2]
                /\ stab_call.out[i][2] <= WindowsOf(i).sy2
                /\ stab_call.out[i][1] =
                      WindowsOf(i).sx1
                        + BestMatch(stab_call.observed[i]).max_loc[1]
                        + WindowsOf(i).tw \div 2
                /\ stab_call.out[i][2] =
                      WindowsOf(i).sy1
                        + BestMatch(stab_call.observed[i]).max_loc[2]
                        + WindowsOf(i).th \div 2

-----------------------------------------------------------------------------
(* Properties of the API server (SpecApi) *)

\* C29: whenever a worker process is alive, measurement_status['running'] is
\* true and measurement_process refers to that process, under every
\* interleaving of start, stop and the waiter threads; a waiter thread of an
\* earlier start never clears the flag or the handle of a later worker.
C29_AliveWorkerIsTracked ==
    \A n \in Workers :
        processes[n] = "alive" =>
            /\ measurement_status.running
            /\ measurement_process = n

\* C30: after stop_measurement succeeded on a running measurement the status
\* is 'stopped' with running false and error None, and stays so until the
\* next start_measurement, whenever the waiter thread of the killed worker
\* finishes.
C30_StoppedStaysStopped ==
    stopped_worker # NoProcess =>
        /\ measurement_status.status = "stopped"
        /\ ~measurement_status.running
        /\ measurement_status.error = "None"
=============================================================================
